---------------------------- MODULE Spec2Model ----------------------------
(***************************************************************************)
(* A model of esp32tool: the SLIP encoder, the serial/USB transport        *)
(* adapters' DTR/RTS handling, the connection, baud-rate and console       *)
(* handlers of the web UI, the NVS partition editor, the filesystem        *)
(* detection and manager, the hex editor's write handler, the Improv       *)
(* serial client and the port selection of the Electron main process.      *)
(*                                                                         *)
(* Every subsystem has its own specification (SpecSlip, SpecSignals,       *)
(* SpecBaud, SpecNvs, SpecFs, SpecFm, SpecHex, SpecConn, SpecCons,         *)
(* SpecImprov with FairSpecImprov, SpecSel); the variables of the other    *)
(* subsystems stay at their idle value while one subsystem runs.           *)
(***************************************************************************)
EXTENDS Integers, Sequences, FiniteSets, TLC

VARIABLES
    \* ---- SLIP codec (src/src/util.ts) ----
    slipSent,       \* payloads handed to slipEncode, oldest first
    slipWire,       \* encoded bytes written and not yet read back
    slipRecv,       \* payloads the reader has decoded, oldest first
    slipErr,        \* the reader met a framing error (SlipRead)
    \* ---- transport adapters: DTR/RTS ----
    sigAdapter,     \* which createNode...Adapter made the port
    sigVendor,      \* USB-serial chip behind a raw-USB port
    sigIsOpen,      \* readableStream/writableStream exist
    currentDTR,     \* tracked DTR (adapters that track)
    currentRTS,     \* tracked RTS (adapters that track)
    lineDTR,        \* DTR level at the serial port / USB-serial chip
    lineRTS,        \* RTS level at the serial port / USB-serial chip
    sigPrev,        \* line levels just before the last setSignals call
    sigLast,        \* arguments of the last setSignals call, or NoCall
    \* ---- web UI: connection, baud rate, console ----
    chipName,           \* esploader.chipName of the connected loader
    espStub,            \* "undefined" or "stub"
    isConnected,        \* toggleUIConnected state
    baudRateSelect,     \* value of the baud-rate selector
    currentBaudRate,    \* baud rate the loader and the device talk at
    consoleSwitch,      \* the console checkbox
    consoleInstance,    \* an ESP32ToolConsole exists
    espLoaderBeforeConsole,  \* a loader was saved when the console opened
    baudRateBeforeConsole,   \* baud rate saved when the console opened
    baudCalls,          \* calls of espStub.setBaudrate made so far
    baudCmds,           \* CHANGE_BAUDRATE commands sent to the device
    stubPort,           \* espStub.port: "none", "live", "dead" or "null"
    transport,          \* kind of espStub.port: "webserial" or "webusb"
    modal,              \* the reconnect dialog shown, or "none"
    portIo,             \* commands the loader issued in the last handler
    advParams,          \* chunkSize, blockSize, maxInFlight selectors
    advCustomised,      \* the user picked the flash-read parameters
    isAndroid,          \* the user agent names Android
    isMobileDevice,     \* isMobileDevice()
    \* ---- NVS editor (src/js/nvs-editor.js) ----
    nvsData,        \* this.data: the partition bytes, index 0..length-1
    nvsModified,    \* this.modified
    nvsPages,       \* this.pages: the last parse result
    nvsBefore,      \* the bytes before the last edit
    nvsOp,          \* the last edit: kind, item, value, outcome
    \* ---- filesystem detection ----
    fsImage,        \* the image handed to the detection
    fsChip,         \* currentChipName at detection time
    fsReadOk,       \* espStub.readFlash of the partition head succeeded
    fsResult,       \* result of detectFilesystemFromImage (with chipName)
    fsResultV1,     \* result of the one-argument detectFilesystemFromImage
    fsPartResult,   \* result of the partition-level detectFilesystemType
    \* ---- filesystem manager of the page ----
    fmPartition,    \* the bytes of the partition last handed to openFilesystem
    fmChip,         \* currentChipName when it was opened
    currentLittleFS,            \* "null" or "fs": the mounted instance
    currentLittleFSPartition,   \* "null" or "partition"
    currentLittleFSPath,        \* directory shown
    currentLittleFSBlockSize,
    currentFilesystemType,      \* "null", "littlefs", "fatfs", "spiffs"
    fmFiles,        \* files and directories held by the instance
    fmMountOffset,  \* offset in the partition of the bytes mounted, or -1
    fmFlashed,      \* a toImage result of the instance was written to flash
    fmUsedBytes,    \* usedBytes of the last refreshLittleFS, or -1
    fmLast,         \* the last handler: name, error, use of a flashed instance
    \* ---- hex editor and NVS editor: writing the buffer to flash ----
    hexData,            \* HexEditor.data
    originalData,       \* HexEditor.originalData
    modifiedOffsets,    \* HexEditor.modifiedOffsets
    selectedOffset,     \* HexEditor.selectedOffset
    hexSent,            \* the bytes the last onWriteFlash call was given
    hexWrite,           \* _handleWrite: "idle", "writing", "written", "failed"
    nvsEdData,          \* NVSEditor.data while its write button is in use
    nvsEdModified,      \* NVSEditor.modified
    nvsEdSent,          \* the bytes the last onWriteFlash call was given
    nvsEdWrite,         \* write handler: "idle", "writing", "written", "failed"
    \* ---- connect: loader initialisation and the ESP32-S2 reconnect ----
    esp32s2ReconnectInProgress,  \* the page's flag of that name
    esp32s2Modal,       \* the reconnect dialog is shown, handleReconnect armed
    connStub,           \* espStub is a connected stub
    connLog,            \* one record per clickConnect call that asked for a port
    \* ---- console: closeConsole and the read loop of ESP32ToolConsole ----
    consInstance,       \* consoleInstance: "null" or "open"
    consReader,         \* the instance's read pipeline holds the port's reader
    consHandlers,       \* console-reset/-close/-bootloader handlers are registered
    consLoaderBefore,   \* espLoaderBeforeConsole is a loader
    consBaudBefore,     \* baudRateBeforeConsole (0: null, NotFinite: undefined)
    consReceived,       \* lines the current _connect has received
    lineCount,          \* _connect: lineCount
    bootloaderDetected, \* _connect: bootloaderDetected
    consEvents,         \* line numbers at which console-bootloader was raised
    consResets,         \* resetInConsoleMode calls made by the event's handler
    consMatchAfter,     \* a line matching a pattern arrived after the event
    consLast,           \* the last handler: "none", "open", "line", "close"
    \* ---- Improv serial client (src/unnamed/part_005 ImprovSerial) ----
    rpcFeedback,        \* _rpcFeedback: the RPC holding the slot, 0 when null
    impRpcs,            \* every feedback RPC requested: kind, status, timer
    impRacing,          \* requestCurrentState calls still in their race
    impReader,          \* _reader: the read loop is running
    impState,           \* this.state (0: undefined)
    impSent,            \* RPC packets written to the port
    impLast,            \* the last request: slot occupied, refused, sent, kept
    \* ---- Electron main process: select-serial-port (src/electron/main.cjs) ----
    activeSelectionId,  \* the counter of that name
    selRequests         \* one record per select-serial-port event, oldest first

slipVars == <<slipSent, slipWire, slipRecv, slipErr>>
sigVars == <<sigAdapter, sigVendor, sigIsOpen, currentDTR, currentRTS,
             lineDTR, lineRTS, sigPrev, sigLast>>
uiVars == <<chipName, espStub, isConnected, baudRateSelect, currentBaudRate,
            consoleSwitch, consoleInstance, espLoaderBeforeConsole,
            baudRateBeforeConsole, baudCalls, baudCmds, stubPort, transport,
            modal, portIo, advParams, advCustomised, isAndroid,
            isMobileDevice>>
nvsVars == <<nvsData, nvsModified, nvsPages, nvsBefore, nvsOp>>
fsVars == <<fsImage, fsChip, fsReadOk, fsResult, fsResultV1, fsPartResult>>

fmVars == <<fmPartition, fmChip, currentLittleFS, currentLittleFSPartition,
            currentLittleFSPath, currentLittleFSBlockSize,
            currentFilesystemType, fmFiles, fmMountOffset, fmFlashed,
            fmUsedBytes, fmLast>>

hexVars == <<hexData, originalData, modifiedOffsets, selectedOffset, hexSent,
             hexWrite, nvsEdData, nvsEdModified, nvsEdSent, nvsEdWrite>>

connVars == <<esp32s2ReconnectInProgress, esp32s2Modal, connStub, connLog>>

consVars == <<consInstance, consReader, consHandlers, consLoaderBefore,
               consBaudBefore, consReceived, lineCount, bootloaderDetected,
               consEvents, consResets, consMatchAfter, consLast>>

impVars == <<rpcFeedback, impRpcs, impRacing, impReader, impState, impSent,
              impLast>>

selVars == <<activeSelectionId, selRequests>>

baseVars == <<slipVars, sigVars, uiVars, nvsVars, fsVars, fmVars>>
extVars == <<hexVars, connVars, consVars, impVars, selVars>>

vars == <<baseVars, extVars>>

nonSlipVars == <<sigVars, uiVars, nvsVars, fsVars, fmVars, extVars>>
nonSigVars == <<slipVars, uiVars, nvsVars, fsVars, fmVars, extVars>>
nonUiVars == <<slipVars, sigVars, nvsVars, fsVars, fmVars, extVars>>
nonNvsVars == <<slipVars, sigVars, uiVars, fsVars, fmVars, extVars>>
nonFsVars == <<slipVars, sigVars, uiVars, nvsVars, fmVars, extVars>>
nonFmVars == <<slipVars, sigVars, uiVars, nvsVars, fsVars, extVars>>

-----------------------------------------------------------------------------
(* Generic helpers *)

\* The elements of s from index a to the end
SeqFrom(s, a) == SubSeq(s, a, Len(s))

RECURSIVE SumLen(_)
\* Total number of bytes in a sequence of byte sequences
SumLen(ss) == IF ss = <<>> THEN 0 ELSE Len(Head(ss)) + SumLen(Tail(ss))

\* All sequences over S of length at most n
SeqsUpTo(S, n) == UNION {[1..k -> S] : k \in 0..n}

-----------------------------------------------------------------------------
(* Idle values of each subsystem's variables *)

Unset == "unset"
NoCall == "nocall"

\* sigLast when the last operation on the port was not a setSignals call
SigNoCall == [dtr |-> NoCall, rts |-> NoCall, brk |-> NoCall]

SlipIdle ==
    /\ slipSent = <<>>
    /\ slipWire = <<>>
    /\ slipRecv = <<>>
    /\ slipErr = FALSE

SigIdle ==
    /\ sigAdapter = "none"
    /\ sigVendor = "none"
    /\ sigIsOpen = FALSE
    /\ currentDTR = FALSE
    /\ currentRTS = FALSE
    /\ lineDTR = FALSE
    /\ lineRTS = FALSE
    /\ sigPrev = [dtr |-> FALSE, rts |-> FALSE]
    /\ sigLast = SigNoCall

UiIdle ==
    /\ chipName = "none"
    /\ espStub = "undefined"
    /\ isConnected = FALSE
    /\ baudRateSelect = 0
    /\ currentBaudRate = 0
    /\ consoleSwitch = FALSE
    /\ consoleInstance = FALSE
    /\ espLoaderBeforeConsole = FALSE
    /\ baudRateBeforeConsole = 0
    /\ baudCalls = <<>>
    /\ baudCmds = <<>>
    /\ stubPort = "none"
    /\ transport = "none"
    /\ modal = "none"
    /\ portIo = <<>>
    /\ advParams = [chunkSize |-> 0, blockSize |-> 0, maxInFlight |-> 0]
    /\ advCustomised = FALSE
    /\ isAndroid = FALSE
    /\ isMobileDevice = FALSE

\* The record of the last edit while no edit has been made
NvsNoEdit(kind) ==
    [kind |-> kind, offset |-> -1, datatype |-> 0, span |-> 0, result |-> "ok",
     input |-> "", wasModified |-> FALSE, n |-> 0]

NvsIdle ==
    /\ nvsData = [len |-> 0, b |-> <<>>]
    /\ nvsModified = FALSE
    /\ nvsPages = <<>>
    /\ nvsBefore = [len |-> 0, b |-> <<>>]
    /\ nvsOp = NvsNoEdit("none")

FsIdle ==
    /\ fsImage = [len |-> 0, b |-> <<>>]
    /\ fsChip = ""
    /\ fsReadOk = TRUE
    /\ fsResult = NoCall
    /\ fsResultV1 = NoCall
    /\ fsPartResult = NoCall

\* The record of the last handler of the filesystem manager
FmNoOp ==
    [op |-> "none", error |-> "none", onFlashed |-> FALSE, fsType |-> "none",
     readOk |-> TRUE, readAll |-> TRUE, mountable |-> {}, ok |-> TRUE]

FmIdle ==
    /\ fmPartition = [len |-> 0, b |-> <<>>]
    /\ fmChip = ""
    /\ currentLittleFS = "null"
    /\ currentLittleFSPartition = "null"
    /\ currentLittleFSPath = "/"
    /\ currentLittleFSBlockSize = 4096
    /\ currentFilesystemType = "null"
    /\ fmFiles = {}
    /\ fmMountOffset = -1
    /\ fmFlashed = FALSE
    /\ fmUsedBytes = -1
    /\ fmLast = FmNoOp

BaseIdle == SlipIdle /\ SigIdle /\ UiIdle /\ NvsIdle /\ FsIdle /\ FmIdle

\* The buffer both editors hold when they open
HexLen == 2
HexBytes == {65, 66}
HexOpened == [o \in 0..(HexLen - 1) |-> 65]

HexIdle ==
    /\ hexData = HexOpened
    /\ originalData = HexOpened
    /\ modifiedOffsets = {}
    /\ selectedOffset = 0
    /\ hexSent = HexOpened
    /\ hexWrite = "idle"
    /\ nvsEdData = HexOpened
    /\ nvsEdModified = FALSE
    /\ nvsEdSent = HexOpened
    /\ nvsEdWrite = "idle"

ConnIdle ==
    /\ esp32s2ReconnectInProgress = FALSE
    /\ esp32s2Modal = FALSE
    /\ connStub = FALSE
    /\ connLog = <<>>

\* A saved baud rate for which Number.isFinite is false (undefined, NaN)
NotFinite == -1

ConsIdle ==
    /\ consInstance = "null"
    /\ consReader = FALSE
    /\ consHandlers = FALSE
    /\ consLoaderBefore = FALSE
    /\ consBaudBefore = 0
    /\ consReceived = 0
    /\ lineCount = 0
    /\ bootloaderDetected = FALSE
    /\ consEvents = <<>>
    /\ consResets = 0
    /\ consMatchAfter = FALSE
    /\ consLast = "none"

\* impLast while no feedback RPC has been requested
ImpNoRequest ==
    [occupied |-> FALSE, refused |-> FALSE, sent |-> FALSE, kept |-> TRUE]

ImpIdle ==
    /\ rpcFeedback = 0
    /\ impRpcs = <<>>
    /\ impRacing = {}
    /\ impReader = FALSE
    /\ impState = 0
    /\ impSent = 0
    /\ impLast = ImpNoRequest

SelIdle ==
    /\ activeSelectionId = 0
    /\ selRequests = <<>>

ExtIdle == HexIdle /\ ConnIdle /\ ConsIdle /\ ImpIdle /\ SelIdle

-----------------------------------------------------------------------------
(* SLIP codec *)

SLIP_END == 192
SLIP_ESC == 219
SLIP_ESC_END == 220
SLIP_ESC_ESC == 221

\* Bytes the payloads are drawn from: both special bytes, one escape code,
\* and two ordinary bytes
SlipBytes == {0, 192, 219, 220, 255}

\* Largest number of payload bytes in flight, and of frames sent
MaxSlipBytes == 4
MaxSlipFrames == 2

\* Scenario S1 of the specification
ScenarioS1 == <<192, 219, 0, 255>>
ScenarioS1Encoded == <<192, 219, 220, 219, 221, 0, 255, 192>>

RECURSIVE slipEncodeLoop(_, _, _)
\* The for-loop of slipEncode: bytes i.. of buffer appended to encoded
slipEncodeLoop(buffer, i, encoded) ==
    IF i > Len(buffer) THEN encoded
    ELSE LET byte == buffer[i] IN
         IF byte = 219 THEN slipEncodeLoop(buffer, i + 1, encoded \o <<219, 221>>)
         ELSE IF byte = 192 THEN slipEncodeLoop(buffer, i + 1, encoded \o <<219, 220>>)
         ELSE slipEncodeLoop(buffer, i + 1, Append(encoded, byte))

RECURSIVE slipEncodeLoopNoEsc(_, _, _)
\* The loop with the 0xDB branch lost: only 0xC0 is escaped
slipEncodeLoopNoEsc(buffer, i, encoded) ==
    IF i > Len(buffer) THEN encoded
    ELSE LET byte == buffer[i] IN
         IF byte = 192 THEN slipEncodeLoopNoEsc(buffer, i + 1, encoded \o <<219, 220>>)
         ELSE slipEncodeLoopNoEsc(buffer, i + 1, Append(encoded, byte))

\* slipEncode without the escape of 0xDB
slipEncodeNoEscape(buffer) == Append(slipEncodeLoopNoEsc(buffer, 1, <<192>>), 192)

\* slipEncode: 0xC0, the escaped bytes, 0xC0
slipEncode(buffer) == Append(slipEncodeLoop(buffer, 1, <<192>>), 192)

RECURSIVE slipSkipGarbage(_, _)
\* Index of the first 0xC0 at or after i, or Len+1 when there is none
slipSkipGarbage(wire, i) ==
    IF i > Len(wire) THEN i
    ELSE IF wire[i] = SLIP_END THEN i
    ELSE slipSkipGarbage(wire, i + 1)

RECURSIVE slipReadBody(_, _, _)
\* Reads from index i (just after the opening 0xC0) to the closing 0xC0 and
\* reverses the escapes. ok = FALSE on a dangling 0xDB or on the end of the
\* input before the closing 0xC0; next is the index after the closing 0xC0.
slipReadBody(wire, i, acc) ==
    IF i > Len(wire) THEN [ok |-> FALSE, payload |-> acc, next |-> i]
    ELSE IF wire[i] = SLIP_END THEN [ok |-> TRUE, payload |-> acc, next |-> i + 1]
    ELSE IF wire[i] = SLIP_ESC THEN
        IF i + 1 > Len(wire) THEN [ok |-> FALSE, payload |-> acc, next |-> i]
        ELSE IF wire[i + 1] = SLIP_ESC_END THEN slipReadBody(wire, i + 2, Append(acc, SLIP_END))
        ELSE IF wire[i + 1] = SLIP_ESC_ESC THEN slipReadBody(wire, i + 2, Append(acc, SLIP_ESC))
        ELSE [ok |-> FALSE, payload |-> acc, next |-> i]
    ELSE slipReadBody(wire, i + 1, Append(acc, wire[i]))

\* Decodes the first frame of wire: skips what precedes the first 0xC0, then
\* reads one frame. rest is what follows the frame.
slipDecode(wire) ==
    LET start == slipSkipGarbage(wire, 1) IN
    IF start > Len(wire) THEN [ok |-> FALSE, payload |-> <<>>, rest |-> <<>>]
    ELSE LET r == slipReadBody(wire, start + 1, <<>>) IN
         [ok |-> r.ok, payload |-> r.payload,
          rest |-> IF r.ok THEN SeqFrom(wire, r.next) ELSE <<>>]

RECURSIVE slipDecodeAll(_, _)
\* Decodes frame after frame until the input is used up or a frame fails
slipDecodeAll(wire, acc) ==
    IF wire = <<>> THEN [ok |-> TRUE, frames |-> acc]
    ELSE LET r == slipDecode(wire) IN
         IF ~r.ok THEN [ok |-> FALSE, frames |-> acc]
         ELSE slipDecodeAll(r.rest, Append(acc, r.payload))

\* The writer encodes a payload and writes the frame
SlipSend(B) ==
    /\ Len(slipSent) < MaxSlipFrames
    /\ SumLen(slipSent) + Len(B) <= MaxSlipBytes
    /\ slipSent' = Append(slipSent, B)
    /\ slipWire' = slipWire \o slipEncode(B)
    /\ UNCHANGED <<slipRecv, slipErr>>
    /\ UNCHANGED nonSlipVars

\* The reader decodes the next frame from the bytes written so far
SlipReceive ==
    /\ slipWire # <<>>
    /\ ~slipErr
    /\ LET r == slipDecode(slipWire) IN
         /\ slipErr' = ~r.ok
         /\ slipRecv' = IF r.ok THEN Append(slipRecv, r.payload) ELSE slipRecv
         /\ slipWire' = r.rest
    /\ UNCHANGED slipSent
    /\ UNCHANGED nonSlipVars

SlipSendAny == \E B \in SeqsUpTo(SlipBytes, MaxSlipBytes) : SlipSend(B)

SlipNext == SlipSendAny \/ SlipReceive

SlipInit ==
    SlipIdle /\ SigIdle /\ UiIdle /\ NvsIdle /\ FsIdle /\ FmIdle /\ ExtIdle

SpecSlip == SlipInit /\ [][SlipNext]_vars

\* C1: decoding the frame made by slipEncode gives back the payload, a
\* concatenation of frames decodes to the same payloads in order with nothing
\* left over, and scenario S1 encodes to the bytes the specification lists.
C1_SlipRoundTrip ==
    /\ ~slipErr
    /\ LET pending == slipDecodeAll(slipWire, <<>>) IN
         /\ pending.ok
         /\ slipRecv \o pending.frames = slipSent
    /\ \A k \in 1..Len(slipSent) :
         LET one == slipDecode(slipEncode(slipSent[k])) IN
           one.ok /\ one.payload = slipSent[k] /\ one.rest = <<>>
    /\ slipEncode(ScenarioS1) = ScenarioS1Encoded
    /\ slipDecodeAll(ScenarioS1Encoded, <<>>) = [ok |-> TRUE, frames |-> <<ScenarioS1>>]

\* Scenario S1 followed by a second frame, both read back
C1_Witness ==
    /\ Len(slipRecv) = 2
    /\ slipRecv[1] = ScenarioS1
    /\ slipWire = <<>>

-----------------------------------------------------------------------------
(* Transport adapters: DTR/RTS                                             *)
(*   "nodeSerialUtil"  createNodeSerialAdapter of src/src/util.ts          *)
(*   "nodeSerial"      createNodeSerialAdapter of src/unnamed/part_003     *)
(*   "nodeUSB"         createNodeUSBAdapter of src/unnamed/part_002 and    *)
(*                     src/src/node-usb-adapter.ts (same signal code)      *)

SigAdapters == {"nodeSerialUtil", "nodeSerial", "nodeUSB"}
SigVendors == {"CP2102", "CH340", "FTDI", "CDC"}
\* A flag of the signals object: given as true, given as false, or absent
SigArg == {"true", "false", Unset}

\* The boolean a given flag carries
SigVal(a) == a = "true"

\* Bit k of the non-negative integer v
Bit(v, k) == (v \div (2 ^ k)) % 2

\* nodePort.set(options) of node-serialport: every flag is set on each call,
\* to the value given or else to the library default (dtr: true, rts: true)
nodePortSet(options) ==
    [dtr |-> IF options.dtr = Unset THEN TRUE ELSE SigVal(options.dtr),
     rts |-> IF options.rts = Unset THEN TRUE ELSE SigVal(options.rts)]

\* value of the SET_MHS request of setSignalsCP2102
setSignalsCP2102(dtr, rts) ==
    (IF dtr THEN 1 ELSE 0) + (IF rts THEN 2 ELSE 0) + 256 + 512

\* value of the 0xA4 request of setSignalsCH340: ~(dtr<<5 | rts<<6) & 0xffff
setSignalsCH340(dtr, rts) ==
    65535 - ((IF dtr THEN 32 ELSE 0) + (IF rts THEN 64 ELSE 0))

\* value of the modem-control request of setSignalsFTDI
setSignalsFTDI(dtr, rts) ==
    (IF dtr THEN 1 ELSE 0) + (IF rts THEN 2 ELSE 0) + 256 + 512

\* value of the SET_CONTROL_LINE_STATE request of setSignalsCDC
setSignalsCDC(dtr, rts) ==
    (IF dtr THEN 1 ELSE 0) + (IF rts THEN 2 ELSE 0)

\* The request value setSignals sends for the chip behind the port
usbSignalValue(vendor, dtr, rts) ==
    CASE vendor = "CP2102" -> setSignalsCP2102(dtr, rts)
      [] vendor = "CH340" -> setSignalsCH340(dtr, rts)
      [] vendor = "FTDI" -> setSignalsFTDI(dtr, rts)
      [] OTHER -> setSignalsCDC(dtr, rts)

\* The request value initializeChip sends for DTR/RTS
initializeChipValue(vendor) ==
    CASE vendor = "CP2102" -> 3 + 256 + 512
      [] vendor = "CH340" -> 65535 - (32 + 64)
      [] vendor = "FTDI" -> 771
      [] OTHER -> 3

\* Line levels the chip takes from a request value: CP2102 and FTDI change
\* a line when its mask bit (8, 9) is set, CH340 asserts a line whose bit
\* (5, 6) is clear, CDC takes bits 0 and 1
chipLines(vendor, value, old) ==
    CASE vendor \in {"CP2102", "FTDI"} ->
            [dtr |-> IF Bit(value, 8) = 1 THEN Bit(value, 0) = 1 ELSE old.dtr,
             rts |-> IF Bit(value, 9) = 1 THEN Bit(value, 1) = 1 ELSE old.rts]
      [] vendor = "CH340" ->
            [dtr |-> Bit(value, 5) = 0, rts |-> Bit(value, 6) = 0]
      [] OTHER ->
            [dtr |-> Bit(value, 0) = 1, rts |-> Bit(value, 1) = 1]

\* The adapter is created on a port whose lines are at any level
SigInit ==
    /\ sigAdapter \in SigAdapters
    /\ sigVendor \in (IF sigAdapter = "nodeUSB" THEN SigVendors ELSE {"none"})
    /\ sigIsOpen = FALSE
    /\ currentDTR = FALSE
    /\ currentRTS = FALSE
    /\ lineDTR \in BOOLEAN
    /\ lineRTS \in BOOLEAN
    /\ sigPrev = [dtr |-> lineDTR, rts |-> lineRTS]
    /\ sigLast = SigNoCall

\* open() of src/src/util.ts: the signals are not touched; the operating
\* system may set the lines to its default when nodePort opens
SigOpenUtil(osDtr, osRts) ==
    /\ sigAdapter = "nodeSerialUtil"
    /\ ~sigIsOpen
    /\ sigIsOpen' = TRUE
    /\ lineDTR' = osDtr
    /\ lineRTS' = osRts
    /\ sigLast' = SigNoCall
    /\ UNCHANGED <<sigAdapter, sigVendor, currentDTR, currentRTS, sigPrev>>
    /\ UNCHANGED nonSigVars

\* open() of part_003: both lines are set to false and tracked as false
SigOpenSerial ==
    /\ sigAdapter = "nodeSerial"
    /\ ~sigIsOpen
    /\ sigIsOpen' = TRUE
    /\ LET l == nodePortSet([dtr |-> "false", rts |-> "false"]) IN
         /\ lineDTR' = l.dtr
         /\ lineRTS' = l.rts
    /\ currentDTR' = FALSE
    /\ currentRTS' = FALSE
    /\ sigLast' = SigNoCall
    /\ UNCHANGED <<sigAdapter, sigVendor, sigPrev>>
    /\ UNCHANGED nonSigVars

\* open() of the raw-USB adapter: initializeChip programs the lines; the
\* tracked values are not assigned
SigOpenUSB ==
    /\ sigAdapter = "nodeUSB"
    /\ ~sigIsOpen
    /\ sigIsOpen' = TRUE
    /\ LET l == chipLines(sigVendor, initializeChipValue(sigVendor),
                          [dtr |-> lineDTR, rts |-> lineRTS]) IN
         /\ lineDTR' = l.dtr
         /\ lineRTS' = l.rts
    /\ sigLast' = SigNoCall
    /\ UNCHANGED <<sigAdapter, sigVendor, currentDTR, currentRTS, sigPrev>>
    /\ UNCHANGED nonSigVars

\* close(): the streams are dropped; tracked values and lines stay
SigClose ==
    /\ sigIsOpen
    /\ sigIsOpen' = FALSE
    /\ sigLast' = SigNoCall
    /\ UNCHANGED <<sigAdapter, sigVendor, currentDTR, currentRTS,
                   lineDTR, lineRTS, sigPrev>>
    /\ UNCHANGED nonSigVars

\* setSignals of src/src/util.ts: only the given flags are passed on to
\* nodePort.set; nothing is done when no flag is given
SigSetUtil(dtr, rts, brk) ==
    /\ sigAdapter = "nodeSerialUtil"
    /\ sigIsOpen
    /\ sigPrev' = [dtr |-> lineDTR, rts |-> lineRTS]
    /\ sigLast' = [dtr |-> dtr, rts |-> rts, brk |-> brk]
    /\ IF dtr = Unset /\ rts = Unset /\ brk = Unset
       THEN UNCHANGED <<lineDTR, lineRTS>>
       ELSE LET l == nodePortSet([dtr |-> dtr, rts |-> rts]) IN
              /\ lineDTR' = l.dtr
              /\ lineRTS' = l.rts
    /\ UNCHANGED <<sigAdapter, sigVendor, sigIsOpen, currentDTR, currentRTS>>
    /\ UNCHANGED nonSigVars

\* setSignals of part_003: the flags not given come from the tracked values
\* and both are always passed to nodePort.set
SigSetSerial(dtrArg, rtsArg, brk) ==
    /\ sigAdapter = "nodeSerial"
    /\ sigIsOpen
    /\ sigPrev' = [dtr |-> lineDTR, rts |-> lineRTS]
    /\ sigLast' = [dtr |-> dtrArg, rts |-> rtsArg, brk |-> brk]
    /\ LET dtr == IF dtrArg # Unset THEN SigVal(dtrArg) ELSE currentDTR
           rts == IF rtsArg # Unset THEN SigVal(rtsArg) ELSE currentRTS
           l == nodePortSet([dtr |-> IF dtr THEN "true" ELSE "false",
                             rts |-> IF rts THEN "true" ELSE "false"])
       IN /\ currentDTR' = dtr
          /\ currentRTS' = rts
          /\ lineDTR' = l.dtr
          /\ lineRTS' = l.rts
    /\ UNCHANGED <<sigAdapter, sigVendor, sigIsOpen>>
    /\ UNCHANGED nonSigVars

\* setSignals of the raw-USB adapter: the flags not given come from the
\* tracked values; the chip gets both
SigSetUSB(dtrArg, rtsArg, brk) ==
    /\ sigAdapter = "nodeUSB"
    /\ sigIsOpen
    /\ sigPrev' = [dtr |-> lineDTR, rts |-> lineRTS]
    /\ sigLast' = [dtr |-> dtrArg, rts |-> rtsArg, brk |-> brk]
    /\ LET dtr == IF dtrArg # Unset THEN SigVal(dtrArg) ELSE currentDTR
           rts == IF rtsArg # Unset THEN SigVal(rtsArg) ELSE currentRTS
           l == chipLines(sigVendor, usbSignalValue(sigVendor, dtr, rts),
                          [dtr |-> lineDTR, rts |-> lineRTS])
       IN /\ currentDTR' = dtr
          /\ currentRTS' = rts
          /\ lineDTR' = l.dtr
          /\ lineRTS' = l.rts
    /\ UNCHANGED <<sigAdapter, sigVendor, sigIsOpen>>
    /\ UNCHANGED nonSigVars

SigOpenUtilAny == \E d, r \in BOOLEAN : SigOpenUtil(d, r)
SigSetUtilAny == \E d, r, b \in SigArg : SigSetUtil(d, r, b)
SigSetSerialAny == \E d, r, b \in SigArg : SigSetSerial(d, r, b)
SigSetUSBAny == \E d, r, b \in SigArg : SigSetUSB(d, r, b)

SigNext ==
    \/ SigOpenUtilAny
    \/ SigOpenSerial
    \/ SigOpenUSB
    \/ SigClose
    \/ SigSetUtilAny
    \/ SigSetSerialAny
    \/ SigSetUSBAny

SignalsInit ==
    SigInit /\ SlipIdle /\ UiIdle /\ NvsIdle /\ FsIdle /\ FmIdle /\ ExtIdle

SpecSignals == SignalsInit /\ [][SigNext]_vars

\* C2: in every adapter a setSignals call that gives only DTR leaves RTS at
\* the level it had before the call, and a call that gives only RTS leaves
\* DTR at the level it had before the call.
C2_PartialUpdatePreserves ==
    sigLast # SigNoCall =>
        /\ (sigLast.dtr # Unset /\ sigLast.rts = Unset) => lineRTS = sigPrev.rts
        /\ (sigLast.rts # Unset /\ sigLast.dtr = Unset) => lineDTR = sigPrev.dtr

\* C2 (where it fails): a DTR-only or RTS-only call has just been made and
\* the other line is at a different level than before the call
C2_Flipped ==
    /\ sigLast # SigNoCall
    /\ \/ sigLast.dtr # Unset /\ sigLast.rts = Unset /\ lineRTS # sigPrev.rts
       \/ sigLast.rts # Unset /\ sigLast.dtr = Unset /\ lineDTR # sigPrev.dtr

\* The same statement for the part_003 adapter alone, which sets and tracks
\* both lines in open()
C2_SerialAdapterPreserves ==
    sigAdapter = "nodeSerial" => C2_PartialUpdatePreserves

-----------------------------------------------------------------------------
(* Web UI: connection, baud-rate selector, console (src/unnamed/part_004)  *)
(* baudCalls and baudCmds hold, in order, the setBaudrate calls made and   *)
(* the baud-change commands sent to the device by the handler that ran     *)
(* last.                                                                   *)

ESP_ROM_BAUD == 115200

baudRates ==
    {2000000, 1500000, 921600, 500000, 460800, 230400, 153600, 128000, 115200}

\* The options of the selector the user picks from, and the chips connected
UiBaudChoices == {115200, 921600}
UiChips == {"ESP8266", "ESP32", "ESP32-S2", "ESP32-S3"}
\* Chips whose USB port is the chip itself and re-enumerates on a reset
UiNativeUsbChips == {"ESP32-S2", "ESP32-S3"}
UiOutcomes == {"ok", "closed", "throw", "uifail"}
UiExitOutcomes == {"ok", "manual", "throw"}
UiSelections == {"ok", "cancel"}
UiConnOutcomes == {"ok", "cancel", "s2"}

\* The per-transport defaults of the flash-read parameters
WebUSBDefaults == [chunkSize |-> 16384, blockSize |-> 248, maxInFlight |-> 248]
DesktopDefaults ==
    [chunkSize |-> 131072, blockSize |-> 3968, maxInFlight |-> 15872]
oldWebUSBDefaults == WebUSBDefaults
oldDesktopDefaults ==
    [chunkSize |-> 262144, blockSize |-> 3968, maxInFlight |-> 15872]
\* What the user may pick in the three advanced selectors
UiAdvancedChoices ==
    {WebUSBDefaults, DesktopDefaults, oldDesktopDefaults,
     [chunkSize |-> 4096, blockSize |-> 31, maxInFlight |-> 31]}

\* The script's state as one record
UiState ==
    [chipName |-> chipName, espStub |-> espStub, isConnected |-> isConnected,
     baudRateSelect |-> baudRateSelect, currentBaudRate |-> currentBaudRate,
     consoleSwitch |-> consoleSwitch, consoleInstance |-> consoleInstance,
     espLoaderBeforeConsole |-> espLoaderBeforeConsole,
     baudRateBeforeConsole |-> baudRateBeforeConsole,
     stubPort |-> stubPort, transport |-> transport, modal |-> modal,
     advParams |-> advParams, advCustomised |-> advCustomised,
     baudCalls |-> <<>>, baudCmds |-> <<>>, portIo |-> <<>>]

UiAssign(u) ==
    /\ chipName' = u.chipName
    /\ espStub' = u.espStub
    /\ isConnected' = u.isConnected
    /\ baudRateSelect' = u.baudRateSelect
    /\ currentBaudRate' = u.currentBaudRate
    /\ consoleSwitch' = u.consoleSwitch
    /\ consoleInstance' = u.consoleInstance
    /\ espLoaderBeforeConsole' = u.espLoaderBeforeConsole
    /\ baudRateBeforeConsole' = u.baudRateBeforeConsole
    /\ stubPort' = u.stubPort
    /\ transport' = u.transport
    /\ modal' = u.modal
    /\ advParams' = u.advParams
    /\ advCustomised' = u.advCustomised
    /\ baudCalls' = u.baudCalls
    /\ baudCmds' = u.baudCmds
    /\ portIo' = u.portIo
    /\ UNCHANGED <<isAndroid, isMobileDevice>>

\* The loader or the stub issues command op on the port it holds
loaderIo(u, op) ==
    [u EXCEPT !.portIo = Append(@, [op |-> op, port |-> u.stubPort,
                                    console |-> u.consoleInstance])]

\* setBaudrate of the protocol engine: for the ESP8266 the command is not
\* sent and the baud rate stays; otherwise CHANGE_BAUDRATE is sent and, on
\* an open port, the transport switches
engineSetBaudrate(u, baud) ==
    IF u.chipName = "ESP8266"
    THEN u
    ELSE LET u1 == loaderIo(u, "CHANGE_BAUDRATE") IN
         IF u.stubPort = "live"
         THEN [u1 EXCEPT !.baudCmds = Append(@, [chip |-> u.chipName, baud |-> baud]),
                         !.currentBaudRate = baud]
         ELSE u1

\* A call site `await espStub.setBaudrate(baud)` in handler `by`
setBaudrate(u, baud, by) ==
    engineSetBaudrate(
        [u EXCEPT !.baudCalls =
             Append(@, [chip |-> u.chipName, baud |-> baud, by |-> by])],
        baud)

\* isUsingWebUSB(): the port's isWebUSB flag when a port with the flag is
\* held (only a WebUSBSerial port carries it), else the mobile-device guess
isUsingWebUSB(u) ==
    IF u.espStub = "stub" /\ u.stubPort \in {"live", "dead"}
       /\ u.transport = "webusb"
    THEN TRUE
    ELSE isMobileDevice

getDefaultAdvancedParams(u) ==
    IF isUsingWebUSB(u) THEN WebUSBDefaults ELSE DesktopDefaults

updateAdvancedParamsForConnection(u) ==
    IF u.advParams = oldWebUSBDefaults \/ u.advParams = oldDesktopDefaults
    THEN [u EXCEPT !.advParams = getDefaultAdvancedParams(u)]
    ELSE u

\* toggleUIConnected(false)
toggleUIDisconnected(u) ==
    [u EXCEPT !.isConnected = FALSE, !.consoleInstance = FALSE,
              !.consoleSwitch = FALSE]

\* espStub = undefined (or false): the stub and its port are let go
dropStub(u, value) ==
    [u EXCEPT !.espStub = value, !.stubPort = "none", !.transport = "none"]

\* clickConnect() from the port request to toggleUIConnected(true); conn is
\* what the request and esploader.initialize do: "ok", "cancel" (no port
\* chosen, or initialize failed), "s2" (the esp32s2-usb-reconnect event)
connectBegin(u, chip, conn) ==
    CASE conn = "ok" \/ (conn = "s2" /\ chip # "ESP32-S2") ->
           LET u1 == [u EXCEPT !.chipName = chip,
                               !.currentBaudRate = ESP_ROM_BAUD,
                               !.espStub = "stub", !.stubPort = "live",
                               !.transport = IF isAndroid THEN "webusb"
                                             ELSE "webserial"]
               u2 == updateAdvancedParamsForConnection(loaderIo(u1, "runStub"))
           IN [u2 EXCEPT !.isConnected = TRUE]
      [] conn = "s2" /\ chip = "ESP32-S2" ->
           [dropStub(toggleUIDisconnected(u), "undefined") EXCEPT !.modal = "s2"]
      [] OTHER -> u

\* clickConnect() after the console auto-start: the selected baud rate
connectEnd(u, chip) ==
    IF u.espStub # "stub"
    THEN u
    ELSE IF u.baudRateSelect \in baudRates /\ chip # "ESP8266"
         THEN setBaudrate(u, u.baudRateSelect, "clickConnect")
         ELSE u

\* exitConsoleMode and enterConsoleMode fail on a port that is not open
portOutcome(u, outcome) == IF u.stubPort = "live" THEN outcome ELSE "throw"

\* closeConsole(); exit is what exitConsoleMode does: "ok" (back in the
\* bootloader), "manual" (a new port must be selected: clickConnect runs
\* with outcome conn), "throw"
closeConsole(u, exit, conn) ==
    IF u.espLoaderBeforeConsole /\ u.baudRateBeforeConsole # 0
    THEN LET u1 == loaderIo([u EXCEPT !.consoleInstance = FALSE],
                            "exitConsoleMode")
             out == portOutcome(u, exit)
         IN
         CASE out = "ok" ->
                LET u2 == [loaderIo(u1, "runStub") EXCEPT !.espStub = "stub"]
                    u3 == IF u2.baudRateBeforeConsole # 115200
                          THEN setBaudrate(u2, u2.baudRateBeforeConsole, "closeConsole")
                          ELSE u2
                IN [u3 EXCEPT !.espLoaderBeforeConsole = FALSE,
                              !.baudRateBeforeConsole = 0]
           [] out = "manual" ->
                LET u2 == dropStub(toggleUIDisconnected(u1), "undefined")
                    u3 == connectBegin(u2, u.chipName, conn)
                IN IF u3.espStub = "stub"
                   THEN [connectEnd(u3, u.chipName)
                             EXCEPT !.espLoaderBeforeConsole = FALSE,
                                    !.baudRateBeforeConsole = 0]
                   ELSE u3
           [] OTHER ->
                [dropStub(toggleUIDisconnected(u1), "undefined")
                     EXCEPT !.espLoaderBeforeConsole = FALSE,
                            !.baudRateBeforeConsole = 0]
    ELSE u

\* openConsolePortAndInit(newPort) after the port request, with the catch of
\* its caller; sel is "ok" when a port was chosen and opened
openConsolePortAndInit(u, tr, sel) ==
    IF sel = "ok" /\ u.espStub = "stub"
    THEN [u EXCEPT !.stubPort = "live", !.transport = tr,
                   !.consoleSwitch = TRUE, !.consoleInstance = TRUE]
    ELSE [u EXCEPT !.consoleSwitch = FALSE]

\* clickConsole(); enter is what enterConsoleMode and initConsoleUI do: "ok",
\* "closed" (the port was closed: the USB device re-enumerates), "throw",
\* "uifail" (initConsoleUI throws)
clickConsole(u, enter, exit, sel, conn) ==
    IF u.consoleSwitch
    THEN IF u.isConnected /\ u.espStub = "stub"
            /\ u.stubPort \in {"live", "dead"} /\ ~u.consoleInstance
         THEN LET u1 == [u EXCEPT !.espLoaderBeforeConsole = TRUE,
                                  !.baudRateBeforeConsole = u.currentBaudRate]
                  u2 == loaderIo(setBaudrate(u1, 115200, "clickConsole"),
                                 "enterConsoleMode")
                  out == IF enter = "closed" /\ u.chipName \notin UiNativeUsbChips
                         THEN "ok" ELSE portOutcome(u, enter)
                  isWebUSB == isUsingWebUSB(u)
              IN CASE out = "ok" -> [u2 EXCEPT !.consoleInstance = TRUE]
                   [] out = "closed" ->
                        IF u.chipName = "ESP32-S2" \/ isWebUSB
                        THEN [u2 EXCEPT !.stubPort = "null",
                                        !.modal = IF isWebUSB THEN "consoleUSB"
                                                  ELSE "consoleSerial"]
                        ELSE openConsolePortAndInit(
                                 [u2 EXCEPT !.stubPort = "dead"], "webserial", sel)
                   [] out = "uifail" ->
                        closeConsole([u2 EXCEPT !.consoleSwitch = FALSE], exit, conn)
                   [] OTHER -> [u2 EXCEPT !.consoleSwitch = FALSE]
         ELSE IF ~u.isConnected
              THEN [u EXCEPT !.consoleSwitch = FALSE]
              ELSE u
    ELSE closeConsole(u, exit, conn)

\* clickConnect(): disconnects when a stub is held, else connects to chip
clickConnect(u, chip, conn, enter, exit, sel) ==
    IF u.espStub = "stub"
    THEN dropStub(toggleUIDisconnected(loaderIo(u, "disconnect")), "undefined")
    ELSE LET u1 == connectBegin(u, chip, conn)
             u2 == IF u1.espStub = "stub" /\ u1.consoleSwitch
                   THEN clickConsole(u1, enter, exit, sel,
                                     IF sel = "ok" THEN "ok" ELSE "cancel")
                   ELSE u1
         IN connectEnd(u2, chip)

\* changeBaudRate(): the selector now shows baud
changeBaudRate(u, baud) ==
    LET u1 == [u EXCEPT !.baudRateSelect = baud] IN
    IF u1.espStub = "stub" /\ baud \in baudRates
    THEN setBaudrate(u1, baud, "changeBaudRate")
    ELSE u1

\* The button of the reconnect dialog: for the console dialogs the port
\* request and openConsolePortAndInit, for the ESP32-S2 dialog clickConnect
handleReconnect(u, chip, conn, sel) ==
    LET u1 == [u EXCEPT !.modal = "none"] IN
    IF u.modal = "s2"
    THEN clickConnect(u1, chip, IF conn = "s2" THEN "ok" ELSE conn,
                      "throw", "throw", "cancel")
    ELSE openConsolePortAndInit(
             u1, IF u.modal = "consoleUSB" THEN "webusb" ELSE "webserial", sel)

\* The page is loaded for the first time: the selector and the console
\* switch come from the settings, the flash-read parameters from
\* initAdvancedParams; an Android browser is a mobile device
UiInit ==
    /\ chipName = "none"
    /\ espStub = "undefined"
    /\ isConnected = FALSE
    /\ baudRateSelect \in UiBaudChoices
    /\ currentBaudRate = 0
    /\ consoleSwitch \in BOOLEAN
    /\ consoleInstance = FALSE
    /\ espLoaderBeforeConsole = FALSE
    /\ baudRateBeforeConsole = 0
    /\ stubPort = "none"
    /\ transport = "none"
    /\ modal = "none"
    /\ isAndroid \in BOOLEAN
    /\ isMobileDevice \in BOOLEAN
    /\ isAndroid => isMobileDevice
    /\ advParams = IF isMobileDevice THEN WebUSBDefaults ELSE DesktopDefaults
    /\ advCustomised = FALSE
    /\ baudCalls = <<>>
    /\ baudCmds = <<>>
    /\ portIo = <<>>

UiClickConnect(chip, conn, enter, exit, sel) ==
    /\ modal = "none"
    /\ UiAssign(clickConnect(UiState, chip, conn, enter, exit, sel))
    /\ UNCHANGED nonUiVars

UiChangeBaudRate(baud) ==
    /\ modal = "none"
    /\ UiAssign(changeBaudRate(UiState, baud))
    /\ UNCHANGED nonUiVars

\* The user clicks the console switch, which toggles it and runs clickConsole
UiClickConsole(enter, exit, sel, conn) ==
    /\ modal = "none"
    /\ UiAssign(clickConsole([UiState EXCEPT !.consoleSwitch = ~consoleSwitch],
                             enter, exit, sel, conn))
    /\ UNCHANGED nonUiVars

\* The user clicks the button of the reconnect dialog
UiReconnect(chip, conn, sel) ==
    /\ modal # "none"
    /\ UiAssign(handleReconnect(UiState, chip, conn, sel))
    /\ UNCHANGED nonUiVars

\* changeAdvancedParam(): the user picks flash-read parameters
UiChangeAdvancedParam(params) ==
    /\ modal = "none"
    /\ UiAssign([UiState EXCEPT !.advParams = params, !.advCustomised = TRUE])
    /\ UNCHANGED nonUiVars

\* The device goes away: handleDisconnect
UiHandleDisconnect ==
    /\ espStub = "stub"
    /\ UiAssign(dropStub(toggleUIDisconnected(UiState), "false"))
    /\ UNCHANGED nonUiVars

UiClickConnectAny ==
    \E chip \in UiChips, conn \in UiConnOutcomes, enter \in UiOutcomes,
       exit \in UiExitOutcomes, sel \in UiSelections :
        UiClickConnect(chip, conn, enter, exit, sel)
UiChangeBaudRateAny == \E baud \in UiBaudChoices : UiChangeBaudRate(baud)
UiClickConsoleAny ==
    \E enter \in UiOutcomes, exit \in UiExitOutcomes, sel \in UiSelections,
       conn \in UiConnOutcomes :
        UiClickConsole(enter, exit, sel, conn)
UiReconnectAny ==
    \E chip \in UiChips, conn \in UiConnOutcomes, sel \in UiSelections :
        UiReconnect(chip, conn, sel)
UiChangeAdvancedParamAny ==
    \E params \in UiAdvancedChoices : UiChangeAdvancedParam(params)

UiNext ==
    \/ UiClickConnectAny
    \/ UiChangeBaudRateAny
    \/ UiClickConsoleAny
    \/ UiReconnectAny
    \/ UiChangeAdvancedParamAny
    \/ UiHandleDisconnect

BaudInit ==
    UiInit /\ SlipIdle /\ SigIdle /\ NvsIdle /\ FsIdle /\ FmIdle /\ ExtIdle

SpecBaud == BaudInit /\ [][UiNext]_vars

\* C3: while the connected chip is an ESP8266 no handler (connect, baud
\* selector, console open or close) calls setBaudrate.
C3_Esp8266SkipsSetBaudrate ==
    \A i \in 1..Len(baudCalls) : baudCalls[i].chip # "ESP8266"

\* With the engine rejecting the command for the ESP8266, no command reaches
\* the device and the baud rate of a connected ESP8266 stays the ROM's
C3_Esp8266BaudUntouched ==
    /\ \A i \in 1..Len(baudCmds) : baudCmds[i].chip # "ESP8266"
    /\ (chipName = "ESP8266" /\ espStub = "stub") => currentBaudRate = ESP_ROM_BAUD

-----------------------------------------------------------------------------
(* NVS editor (src/js/nvs-editor.js)                                        *)
(* The partition buffer this.data is held as its length and the bytes that *)
(* differ from 0xFF: two buffers are equal exactly when their records are. *)

NVS_SECTOR_SIZE == 4096
MAX_ENTRY_COUNT == 126
\* 0xEDB88320 as its high and low 16 bits: a 32-bit value is held as
\* [hi, lo], both in 0..65535
CRC_POLY_HI == 60856
CRC_POLY_LO == 33568

Min(a, b) == IF a < b THEN a ELSE b

\* F applied to the value of a (of a and b): the argument is evaluated
\* once, before F
Eager(a, F(_)) == CHOOSE r \in {F(x) : x \in {a}} : TRUE
Eager2(a, b, F(_, _)) == CHOOSE r \in {F(x, y) : x \in {a}, y \in {b}} : TRUE

\* Bitwise XOR of two 4-bit values, and of two unsigned 16-bit values
RECURSIVE XorBits(_, _)
XorBits(a, b) ==
    IF a = 0 THEN b
    ELSE IF b = 0 THEN a
    ELSE ((a + b) % 2) + 2 * XorBits(a \div 2, b \div 2)

XorNibble == [a \in 0..15 |-> [b \in 0..15 |-> XorBits(a, b)]]

RECURSIVE Xor16(_, _)
Xor16(a, b) ==
    IF a = 0 THEN b
    ELSE IF b = 0 THEN a
    ELSE XorNibble[a % 16][b % 16] + 16 * Xor16(a \div 16, b \div 16)

\* this.data[off]
rd(d, off) == IF off \in DOMAIN d.b THEN d.b[off] ELSE 255

\* Bytes [a..a+n) of the buffer as a sequence
rdSeq(d, a, n) == [i \in 1..n |-> rd(d, a + i - 1)]

\* The buffer after the bytes of p (a function from offsets) are stored;
\* a store outside the buffer is dropped, as on a typed array
patch(d0, p0) ==
    Eager2(d0, p0, LAMBDA d, p :
        LET val(o) == IF o \in DOMAIN p /\ o >= 0 /\ o < d.len THEN p[o] ELSE d.b[o]
        IN [d EXCEPT !.b =
               [o \in {x \in DOMAIN d.b \cup {y \in DOMAIN p : y >= 0 /\ y < d.len} :
                          val(x) # 255} |-> val(o)]])

\* this.data.set(bytes, off), for a store that lies inside the buffer
setSeq(d, bytes0, off) ==
    patch(d, Eager(bytes0, LAMBDA bytes :
                 [o \in off..(off + Len(bytes) - 1) |-> bytes[o - off + 1]]))

\* this.data.fill(0xFF, a, b): the end is clamped to the buffer
fillFF(d0, a, b) ==
    Eager(d0, LAMBDA d :
        [d EXCEPT !.b = [o \in {x \in DOMAIN d.b : x < a \/ x >= b} |-> d.b[o]]])

\* Little-endian bytes of the unsigned value v in n bytes
RECURSIVE leBytes(_, _)
leBytes(v, n) == IF n = 0 THEN <<>> ELSE <<v % 256>> \o leBytes(v \div 256, n - 1)

_u8(d, off) == rd(d, off)
_u16(d, off) == rd(d, off) + 256 * rd(d, off + 1)
\* _u32 as the four bytes read, lowest first
_u32(d, off) == rdSeq(d, off, 4)

\* crc >>> 1 and crc ^ 0xEDB88320 on [hi, lo]
shr1(crc) ==
    [hi |-> crc.hi \div 2, lo |-> (crc.lo \div 2) + 32768 * (crc.hi % 2)]

xorPoly(crc) ==
    [hi |-> Xor16(crc.hi, CRC_POLY_HI), lo |-> Xor16(crc.lo, CRC_POLY_LO)]

\* One round of the loop of crc32Byte on data bit `bit`
crc32Bit(crc0, bit) ==
    Eager(crc0, LAMBDA crc :
        Eager([crc EXCEPT !.lo = Xor16(@, bit)], LAMBDA c1 :
            IF c1.lo % 2 = 1 THEN Eager(shr1(c1), xorPoly) ELSE shr1(c1)))

\* crc32Byte: the eight data bits, lowest first
RECURSIVE crc32ByteLoop(_, _, _)
crc32ByteLoop(crc, dd, i) ==
    IF i = 8 THEN crc
    ELSE Eager2(crc32Bit(crc, dd % 2), dd \div 2, LAMBDA c, rest :
             crc32ByteLoop(c, rest, i + 1))

crc32Byte(crc, dd) == crc32ByteLoop(crc, dd, 0)

\* The loop of crc32 over data[from..to-1], the iterations composed by halves
RECURSIVE crc32Range(_, _, _, _)
crc32Range(data, from, to, crc) ==
    IF from >= to THEN crc
    ELSE IF to = from + 1 THEN crc32Byte(crc, data[from])
    ELSE Eager(crc32Range(data, from, (from + to) \div 2, crc), LAMBDA c :
             crc32Range(data, (from + to) \div 2, to, c))

\* crc32 over a byte sequence: initial value 0, result complemented; the
\* result is given as its four bytes, lowest first (as setUint32(.., true)
\* stores it and _u32 reads it)
crc32(data0) ==
    Eager(data0, LAMBDA data :
        Eager(crc32Range(data, 1, Len(data) + 1, [hi |-> 0, lo |-> 0]), LAMBDA c :
            <<(65535 - c.lo) % 256, (65535 - c.lo) \div 256,
              (65535 - c.hi) % 256, (65535 - c.hi) \div 256>>))

\* crc32Header with the CRC field included in the input
crc32HeaderNoSkip(d, offset) == crc32(rdSeq(d, offset, 28))

\* crc32Header: bytes [0..4) and [8..32) of the entry at offset
crc32Header(d, offset) == crc32(rdSeq(d, offset, 4) \o rdSeq(d, offset + 8, 24))

\* NVS_PAGE_STATE, each value as the four bytes _u32 reads
NVS_PAGE_STATE ==
    [UNINIT |-> <<255, 255, 255, 255>>, ACTIVE |-> <<254, 255, 255, 255>>,
     FULL |-> <<252, 255, 255, 255>>, FREEING |-> <<248, 255, 255, 255>>,
     CORRUPT |-> <<240, 255, 255, 255>>]

pageStateName(state) ==
    CASE state = NVS_PAGE_STATE.UNINIT -> "UNINIT"
      [] state = NVS_PAGE_STATE.ACTIVE -> "ACTIVE"
      [] state = NVS_PAGE_STATE.FULL -> "FULL"
      [] state = NVS_PAGE_STATE.FREEING -> "FREEING"
      [] state = NVS_PAGE_STATE.CORRUPT -> "CORRUPT"
      [] OTHER -> "UNKNOWN"

\* _readString: the printable bytes before the first NUL, at most maxLen
RECURSIVE _readString(_, _, _)
_readString(d, offset, maxLen) ==
    IF maxLen = 0 THEN <<>>
    ELSE LET b == rd(d, offset)
         IN IF b >= 32 /\ b <= 126
            THEN <<b>> \o _readString(d, offset + 1, maxLen - 1)
            ELSE <<>>

\* _getNVSItemState on the 32 bitmap bytes (a sequence); an index past the
\* bitmap reads as undefined and gives 0
_getNVSItemState(bitmap, index) ==
    IF index \div 4 >= Len(bitmap) THEN 0
    ELSE (bitmap[(index \div 4) + 1] \div (2 ^ ((index % 4) * 2))) % 4

\* _setNVSItemState; a store past the bitmap is dropped
_setNVSItemState(bitmap, index, state) ==
    IF index \div 4 >= Len(bitmap) THEN bitmap
    ELSE LET sh == 2 ^ ((index % 4) * 2)
             old == bitmap[(index \div 4) + 1]
             cleared == old - ((old \div sh) % 4) * sh
         IN [bitmap EXCEPT ![(index \div 4) + 1] = cleared + state * sh]

\* Number of value bytes of a primitive datatype (0: not a primitive)
primitiveWidth(datatype) ==
    CASE datatype \in {1, 17} -> 1
      [] datatype \in {2, 18} -> 2
      [] datatype \in {4, 20} -> 4
      [] datatype \in {8, 24} -> 8
      [] OTHER -> 0

\* The bytes before the first NUL of a payload
RECURSIVE untilNul(_)
untilNul(s) ==
    IF s = <<>> \/ Head(s) = 0 THEN <<>> ELSE <<Head(s)>> \o untilNul(Tail(s))

ValueErased == <<-1>>
ValueInvalid == <<-2>>

\* The item _parse builds for the written entry at eOff. A numeric value is
\* held as the bytes it is decoded from, lowest first; a string or blob
\* value as its bytes, or ValueErased / ValueInvalid for the two markers
parseItem(d, secOff, eOff) ==
    LET nsIndex == _u8(d, eOff)
        datatype == _u8(d, eOff + 1)
        span == _u8(d, eOff + 2)
        crc == _u32(d, eOff + 4)
        headerCrcCalc == crc32Header(d, eOff)
        size == _u16(d, eOff + 24)
        sized == datatype \in {33, 66} /\ nsIndex # 0
        valid == sized /\ size > 0 /\ size < 4096 /\ eOff + 32 + size <= d.len
        raw == IF valid THEN rdSeq(d, eOff + 32, size) ELSE <<>>
        dataCrcCalc == crc32(raw)
    IN [nsIndex |-> nsIndex, datatype |-> datatype, span |-> span,
        chunkIndex |-> _u8(d, eOff + 3),
        crc32 |-> crc, headerCrcCalc |-> headerCrcCalc,
        headerCrcValid |-> crc = headerCrcCalc,
        key |-> _readString(d, eOff + 8, 16),
        value |->
            IF nsIndex = 0 THEN <<_u8(d, eOff + 24)>>
            ELSE IF primitiveWidth(datatype) > 0
                 THEN rdSeq(d, eOff + 24, primitiveWidth(datatype))
            ELSE IF datatype = 72 THEN rdSeq(d, eOff + 24, 6)
            ELSE IF ~sized THEN <<>>
            ELSE IF ~valid THEN ValueInvalid
            ELSE IF \A i \in 1..size : raw[i] = 255 THEN ValueErased
            ELSE IF datatype = 33 THEN untilNul(raw) ELSE raw,
        rawValue |-> raw,
        dataCrcValid |->
            IF ~valid THEN "undefined"
            ELSE IF dataCrcCalc = _u32(d, eOff + 28) THEN "true" ELSE "false",
        size |-> IF valid THEN size ELSE 0,
        offset |-> eOff, pageOffset |-> secOff,
        namespace |-> <<>>]

\* The `continue` conditions with one more: a header CRC that does not match
skipEntryOrBadCrc(d, eOff) ==
    LET nsIndex == _u8(d, eOff)
        datatype == _u8(d, eOff + 1)
        span == _u8(d, eOff + 2)
    IN \/ span = 0 \/ span > 126
       \/ datatype = 255 \/ datatype = 0
       \/ nsIndex = 255
       \/ (nsIndex # 0 /\ _readString(d, eOff + 8, 16) = <<>>)
       \/ _u32(d, eOff + 4) # crc32Header(d, eOff)

\* The `continue` conditions of the entry loop
skipEntry(d, eOff) ==
    LET nsIndex == _u8(d, eOff)
        datatype == _u8(d, eOff + 1)
        span == _u8(d, eOff + 2)
    IN \/ span = 0 \/ span > 126
       \/ datatype = 255 \/ datatype = 0
       \/ nsIndex = 255
       \/ (nsIndex # 0 /\ _readString(d, eOff + 8, 16) = <<>>)

\* The first entry index >= entry whose bitmap state is WRITTEN (2), or
\* MAX_ENTRY_COUNT
nextWritten(bitmap, entry) ==
    LET w == {e \in entry..(MAX_ENTRY_COUNT - 1) : _getNVSItemState(bitmap, e) = 2}
    IN IF w = {} THEN MAX_ENTRY_COUNT
       ELSE CHOOSE e \in w : \A f \in w : e <= f

\* namespaces.set(index, key)
nsSet(namespaces, index, key) ==
    [n \in DOMAIN namespaces \cup {index} |->
        IF n = index THEN key ELSE namespaces[n]]

\* The entry loop of one page from index entry on: the items pushed and the
\* namespace table
RECURSIVE parseEntries(_, _, _, _, _)
parseEntries(d, secOff, bitmap, entry, acc) ==
    Eager(nextWritten(bitmap, entry), LAMBDA e :
        LET eOff == secOff + 64 + e * 32
        IN IF e >= MAX_ENTRY_COUNT \/ eOff + 32 > d.len THEN acc
           ELSE IF skipEntry(d, eOff)
                THEN parseEntries(d, secOff, bitmap, e + 1, acc)
           ELSE Eager(parseItem(d, secOff, eOff), LAMBDA item :
                    Eager([items |-> Append(acc.items, item),
                           namespaces |->
                              IF item.nsIndex = 0
                              THEN nsSet(acc.namespaces, item.value[1], item.key)
                              ELSE acc.namespaces],
                          LAMBDA next :
                              parseEntries(d, secOff, bitmap, e + item.span, next))))

\* The namespace name given to an item once its page is read:
\* namespaces.get(nsIndex) || `ns_<nsIndex>`, the latter held as <<-nsIndex>>
resolveNamespace(item, namespaces) ==
    IF item.nsIndex = 0 THEN [item EXCEPT !.namespace = item.key]
    ELSE IF item.nsIndex \in DOMAIN namespaces /\ namespaces[item.nsIndex] # <<>>
         THEN [item EXCEPT !.namespace = namespaces[item.nsIndex]]
         ELSE [item EXCEPT !.namespace = <<-item.nsIndex>>]

\* The page loop of _parse from secOff on
RECURSIVE parsePages(_, _, _)
parsePages(d, secOff, acc) ==
    IF secOff >= d.len \/ secOff + 64 > d.len THEN acc.pages
    ELSE LET stateName == pageStateName(_u32(d, secOff))
         IN IF stateName \in {"UNINIT", "CORRUPT"}
            THEN parsePages(d, secOff + NVS_SECTOR_SIZE, acc)
            ELSE Eager2(rdSeq(d, secOff + 32, 32), acc.namespaces, LAMBDA stateBitmap, known :
                   Eager(parseEntries(d, secOff, stateBitmap, 0,
                                      [items |-> <<>>, namespaces |-> known]),
                         LAMBDA r :
                           LET page == [offset |-> secOff, state |-> stateName,
                                        seq |-> _u32(d, secOff + 4),
                                        version |-> _u8(d, secOff + 8),
                                        crc32 |-> _u32(d, secOff + 28),
                                        items |-> [i \in 1..Len(r.items) |->
                                            resolveNamespace(r.items[i], r.namespaces)]]
                           IN Eager([pages |-> Append(acc.pages, page),
                                     namespaces |-> r.namespaces],
                                    LAMBDA next :
                                        parsePages(d, secOff + NVS_SECTOR_SIZE, next))))

\* A parse that ends at the first uninitialized or corrupt page
_parseUntilBad(d0) ==
    Eager(d0, LAMBDA d :
        LET bad == {k \in 0..(d.len \div NVS_SECTOR_SIZE) :
                       /\ k * NVS_SECTOR_SIZE + 64 <= d.len
                       /\ pageStateName(_u32(d, k * NVS_SECTOR_SIZE))
                              \in {"UNINIT", "CORRUPT"}}
            stop == IF bad = {} THEN d.len
                    ELSE NVS_SECTOR_SIZE * (CHOOSE k \in bad : \A j \in bad : k <= j)
        IN parsePages([len |-> stop, b |-> [o \in {x \in DOMAIN d.b : x < stop} |-> d.b[o]]],
                      0, [pages |-> <<>>, namespaces |-> (0 :> <<>>)]))

_parse(d0) ==
    Eager(d0, LAMBDA d :
        parsePages(d, 0, [pages |-> <<>>, namespaces |-> (0 :> <<>>)]))

\* The same bytes highest first, as a store without the little-endian flag
\* leaves them
beBytesSigned(v, n) ==
    LET m == IF v >= 0 THEN leBytes(v, n)
             ELSE [i \in 1..n |-> 255 - leBytes((-v) - 1, n)[i]]
    IN [i \in 1..n |-> m[n + 1 - i]]

\* Two's-complement little-endian bytes of v in n bytes (setInt16, setInt32,
\* setBigInt64, and the unsigned stores for v >= 0)
leBytesSigned(v, n) ==
    IF v >= 0 THEN leBytes(v, n)
    ELSE LET m == leBytes((-v) - 1, n) IN [i \in 1..n |-> 255 - m[i]]

\* The bitmap loop of _deleteEntry for s in [from, to): entry entryIdx+s is
\* set to ERASED (0); the iterations are composed by halves
RECURSIVE eraseStates(_, _, _, _)
eraseStates(bitmap0, entryIdx, from, to) ==
    Eager(bitmap0, LAMBDA bitmap :
        IF from >= to THEN bitmap
        ELSE IF to = from + 1 THEN _setNVSItemState(bitmap, entryIdx + from, 0)
        ELSE eraseStates(eraseStates(bitmap, entryIdx, from, (from + to) \div 2),
                         entryIdx, (from + to) \div 2, to))

\* _deleteEntry(item)
_deleteEntry(d0, item) ==
    Eager(d0, LAMBDA d :
        LET pageOff == item.pageOffset
            entryIdx == (item.offset - pageOff - 64) \div 32
            stateBitmap == rdSeq(d, pageOff + 32, 32)
        IN setSeq(fillFF(d, item.offset, item.offset + item.span * 32),
                  eraseStates(stateBitmap, entryIdx, 0, item.span), pageOff + 32))

\* The header-CRC tail of _writeValue and of the hex-editor path
writeHeaderCrcSkipped(d, off) == d

writeHeaderCrc(d0, off) ==
    Eager(d0, LAMBDA d : setSeq(d, crc32Header(d, off), off + 4))

\* The range checks of _writeValue for the primitive datatypes, on the
\* parsed number v (nan: parseInt or BigInt gave no number)
primitiveInRange(datatype, nan, v) ==
    /\ ~nan
    /\ CASE datatype = 1 -> v >= 0 /\ v <= 255
         [] datatype = 2 -> v >= 0 /\ v <= 65535
         [] datatype = 4 -> v >= 0
         [] datatype = 8 -> v >= 0
         [] datatype = 17 -> v >= -128 /\ v <= 127
         [] datatype = 18 -> v >= -32768 /\ v <= 32767
         [] OTHER -> TRUE

\* The string and blob cases of _writeValue; payload is encWithNul or
\* blobData
writeSized(d, item, payload0) ==
    Eager(payload0, LAMBDA payload :
    LET off == item.offset
        maxPayload == (item.span - 1) * 32
        d1 == setSeq(d, leBytes(Len(payload) % 65536, 2), off + 24)
        d2 == fillFF(d1, off + 32, off + 32 + maxPayload)
        d3 == setSeq(d2, payload, off + 32)
        d4 == setSeq(d3, crc32(payload), off + 28)
    IN IF Len(payload) > maxPayload
       THEN [d |-> d, modified |-> FALSE, result |-> "alert"]
       ELSE IF off + 32 + Len(payload) > d.len
            THEN [d |-> d2, modified |-> FALSE, result |-> "throw"]
            ELSE [d |-> writeHeaderCrc(d4, off), modified |-> TRUE, result |-> "ok"])

\* _writeValue(item, newValue); newValue is [nan, v, bytes]: the number
\* parsed from the text (for the numeric types) and the bytes encoded from
\* it (for strings and blobs). modified says whether this.modified is set
_writeValue(d, item, newValue) ==
    LET off == item.offset
        w == primitiveWidth(item.datatype)
    IN IF w > 0
       THEN IF primitiveInRange(item.datatype, newValue.nan, newValue.v)
            THEN [d |-> writeHeaderCrc(
                            setSeq(d, leBytesSigned(newValue.v, w), off + 24), off),
                  modified |-> TRUE, result |-> "ok"]
            ELSE [d |-> d, modified |-> FALSE, result |-> "throw"]
       ELSE IF item.datatype = 33
            THEN writeSized(d, item, Append(newValue.bytes, 0))
       ELSE IF item.datatype = 66
            THEN IF newValue.nan
                 THEN [d |-> d, modified |-> FALSE, result |-> "alert"]
                 ELSE writeSized(d, item, newValue.bytes)
       ELSE IF item.datatype = 72
            THEN IF newValue.nan \/ newValue.v < 0
                 THEN [d |-> d, modified |-> FALSE, result |-> "alert"]
                 ELSE [d |-> writeHeaderCrc(
                                 setSeq(d, leBytes(newValue.v, 4), off + 24), off),
                       modified |-> TRUE, result |-> "ok"]
       ELSE [d |-> d, modified |-> FALSE, result |-> "alert"]

\* What the hex editor is opened on by _editItemInHexEditor: the offset,
\* size and limit of the data, or size 0 when it refuses ('No data to edit')
hexWindow(item) ==
    IF item.datatype \notin {33, 66}
    THEN [dataOffset |-> item.offset + 24, dataSize |-> 8, maxSize |-> 8]
    ELSE [dataOffset |-> item.offset + 32,
          dataSize |-> IF item.size # 0 THEN item.size ELSE Len(item.rawValue),
          maxSize |-> (item.span - 1) * 32]

\* onWriteFlash of the hex editor opened on item: editedData are the bytes
\* of the window after editing, changed says whether any byte was modified
hexApply(d, item, editedData, changed) ==
    LET off == item.offset
        win == hexWindow(item)
        p1 == fillFF(d, win.dataOffset, win.dataOffset + win.maxSize)
        p2 == setSeq(p1, editedData, win.dataOffset)
        p3 == setSeq(p2, leBytes(Len(editedData) % 65536, 2), off + 24)
        p4 == setSeq(p3, crc32(editedData), off + 28)
    IN IF ~changed THEN [d |-> d, modified |-> FALSE, result |-> "none"]
       ELSE IF Len(editedData) > win.maxSize
            THEN [d |-> d, modified |-> FALSE, result |-> "alert"]
       ELSE IF item.datatype \notin {33, 66}
            THEN [d |-> writeHeaderCrc(setSeq(d, SubSeq(editedData, 1, 8), win.dataOffset), off),
                  modified |-> TRUE, result |-> "ok"]
            ELSE [d |-> writeHeaderCrc(p4, off), modified |-> TRUE, result |-> "ok"]

\* ---- Partition images the editor is opened on ----

NvsPageCount == 2
MaxNvsOps == 1

NvsBlank == [len |-> NvsPageCount * NVS_SECTOR_SIZE, b |-> <<>>]

\* A page header: state, sequence number, version 0xFE
putPage(d, pageOff, state, seq) ==
    setSeq(d, state \o <<seq, 0, 0, 0, 254>>, pageOff)

\* A written entry at slot of the page: the 32 header bytes, the payload in
\* the slots after it, the bitmap states of its span set to WRITTEN (2) and
\* the header CRC
putEntry(d0, pageOff, slot, nsIndex, datatype, span, key, data, payload) ==
    Eager(d0, LAMBDA d :
    LET off == pageOff + 64 + slot * 32
        hdr == <<nsIndex, datatype, span, 255, 0, 0, 0, 0>>
                 \o [i \in 1..16 |-> IF i <= Len(key) THEN key[i] ELSE 0]
                 \o [i \in 1..8 |-> IF i <= Len(data) THEN data[i] ELSE 255]
        bitmap == rdSeq(d, pageOff + 32, 32)
        marked == [k \in 1..32 |->
                      LET first == (k - 1) * 4
                          st(j) == IF first + j >= slot /\ first + j < slot + span
                                      /\ first + j < MAX_ENTRY_COUNT
                                   THEN 2
                                   ELSE _getNVSItemState(bitmap, first + j)
                      IN st(0) + 4 * st(1) + 16 * st(2) + 64 * st(3)]
        d1 == setSeq(setSeq(d, hdr, off), payload, off + 32)
    IN writeHeaderCrc(setSeq(d1, marked, pageOff + 32), off))

\* The 8 data bytes of a string or blob entry: size, reserved, data CRC
sizedData(payload) == leBytes(Len(payload), 2) \o <<255, 255>> \o crc32(payload)

KeyWifi == <<119, 105, 102, 105>>
KeyWifiCnt == <<119, 105, 102, 105, 95, 99, 110, 116>>
KeySsid == <<115, 115, 105, 100>>
KeyBlob == <<98, 108, 111, 98>>
KeyLvl == <<108, 118, 108>>
KeyZ == <<122>>

NvsLastPage == (NvsPageCount - 1) * NVS_SECTOR_SIZE

\* Scenario S6 and more: namespace wifi = 1, U32 wifi_cnt = 5, string ssid,
\* I16 lvl = -2; on the last page a U8 of the same namespace
ImgWifi ==
    LET p0 == putPage(NvsBlank, 0, NVS_PAGE_STATE.ACTIVE, 0)
        e0 == putEntry(p0, 0, 0, 0, 1, 1, KeyWifi, <<1>>, <<>>)
        e1 == putEntry(e0, 0, 1, 1, 4, 1, KeyWifiCnt, <<5, 0, 0, 0>>, <<>>)
        e2 == putEntry(e1, 0, 2, 1, 33, 2, KeySsid, sizedData(<<97, 98, 0>>), <<97, 98, 0>>)
        e3 == putEntry(e2, 0, 4, 1, 18, 1, KeyLvl, <<254, 255>>, <<>>)
        p1 == putPage(e3, NvsLastPage, NVS_PAGE_STATE.ACTIVE, 1)
    IN putEntry(p1, NvsLastPage, 0, 1, 1, 1, KeyZ, <<9>>, <<>>)

\* A full page with a blob, then an active page
ImgBlob ==
    LET p0 == putPage(NvsBlank, 0, NVS_PAGE_STATE.FULL, 0)
        e0 == putEntry(p0, 0, 0, 0, 1, 1, KeyWifi, <<1>>, <<>>)
        e1 == putEntry(e0, 0, 1, 1, 66, 2, KeyBlob, sizedData(<<1, 2, 3>>), <<1, 2, 3>>)
        e2 == putEntry(e1, 0, 3, 1, 8, 1, KeyWifiCnt, <<5, 0, 0, 0, 0, 0, 0, 0>>, <<>>)
        p1 == putPage(e2, NvsLastPage, NVS_PAGE_STATE.ACTIVE, 1)
    IN putEntry(p1, NvsLastPage, 0, 1, 17, 1, KeyZ, <<255>>, <<>>)

\* The first page never initialised (all 0xFF), entries on the last page
ImgUninitFirst ==
    LET p1 == putPage(NvsBlank, NvsLastPage, NVS_PAGE_STATE.ACTIVE, 1)
        e0 == putEntry(p1, NvsLastPage, 0, 0, 1, 1, KeyWifi, <<1>>, <<>>)
    IN putEntry(e0, NvsLastPage, 1, 1, 2, 1, KeyLvl, <<44, 1>>, <<>>)

\* The first page marked CORRUPT with its old entries still in place,
\* entries on the last page
ImgCorruptFirst ==
    LET p0 == putPage(NvsBlank, 0, NVS_PAGE_STATE.CORRUPT, 0)
        e0 == putEntry(p0, 0, 0, 0, 1, 1, KeyWifi, <<1>>, <<>>)
        e1 == putEntry(e0, 0, 1, 1, 1, 1, KeyZ, <<3>>, <<>>)
        p1 == putPage(e1, NvsLastPage, NVS_PAGE_STATE.ACTIVE, 1)
    IN putEntry(p1, NvsLastPage, 0, 1, 1, 1, KeyLvl, <<4>>, <<>>)

\* A string entry in the last slot of the first page whose span (2) reaches
\* past the page, and the same in the last slot of the last page, where the
\* span reaches past the buffer
ImgSpanPast ==
    LET p0 == putPage(NvsBlank, 0, NVS_PAGE_STATE.ACTIVE, 0)
        e0 == putEntry(p0, 0, 0, 0, 1, 1, KeyWifi, <<1>>, <<>>)
        e1 == putEntry(e0, 0, 125, 1, 33, 2, KeySsid, <<4, 0>>, <<>>)
        p1 == putPage(e1, NvsLastPage, NVS_PAGE_STATE.ACTIVE, 1)
        e2 == putEntry(p1, NvsLastPage, 0, 1, 1, 1, KeyZ, <<9>>, <<>>)
    IN putEntry(e2, NvsLastPage, 125, 1, 33, 2, KeyLvl, <<4, 0>>, <<>>)

\* The first image with the stored header CRC of wifi_cnt (slot 1) off by
\* one in its lowest byte
ImgBadCrc == setSeq(ImgWifi, <<(rd(ImgWifi, 100) + 1) % 256>>, 100)

\* Namespace entries after their users: on the first page z (namespace 1),
\* lvl (namespace 2) and then the namespace entry blob = 2; on the last page
\* the namespace entry wifi = 1, then lvl (namespace 1) and z (namespace 2)
ImgNsLater ==
    LET p0 == putPage(NvsBlank, 0, NVS_PAGE_STATE.FULL, 0)
        e0 == putEntry(p0, 0, 0, 1, 1, 1, KeyZ, <<9>>, <<>>)
        e1 == putEntry(e0, 0, 1, 2, 2, 1, KeyLvl, <<44, 1>>, <<>>)
        e2 == putEntry(e1, 0, 2, 0, 1, 1, KeyBlob, <<2>>, <<>>)
        p1 == putPage(e2, NvsLastPage, NVS_PAGE_STATE.ACTIVE, 1)
        e3 == putEntry(p1, NvsLastPage, 0, 0, 1, 1, KeyWifi, <<1>>, <<>>)
        e4 == putEntry(e3, NvsLastPage, 1, 1, 1, 1, KeyLvl, <<4>>, <<>>)
    IN putEntry(e4, NvsLastPage, 2, 2, 1, 1, KeyZ, <<5>>, <<>>)

NvsImages ==
    {ImgWifi, ImgBlob, ImgUninitFirst, ImgCorruptFirst, ImgSpanPast, ImgBadCrc, ImgNsLater}

\* Texts typed as a new value: the number parseInt / BigInt gives (nan: none),
\* the bytes TextEncoder gives, and the bytes the blob case parses from the
\* text as hex (hexBad: some token is no byte)
NvsText(name, nan, v, enc, hexBad, hex) ==
    [name |-> name, nan |-> nan, v |-> v, bytes |-> enc, hexBad |-> hexBad, hex |-> hex]

NvsInputs ==
    {NvsText("7", FALSE, 7, <<55>>, FALSE, <<7>>),
     NvsText("300", FALSE, 300, <<51, 48, 48>>, TRUE, <<>>),
     NvsText("-2", FALSE, -2, <<45, 50>>, TRUE, <<>>),
     NvsText("70000", FALSE, 70000, <<55, 48, 48, 48, 48>>, TRUE, <<>>),
     NvsText("aa bb", TRUE, 0, <<97, 97, 32, 98, 98>>, FALSE, <<170, 187>>),
     NvsText("x*31", TRUE, 0, [i \in 1..31 |-> 120], TRUE, <<>>),
     NvsText("x*32", TRUE, 0, [i \in 1..32 |-> 120], TRUE, <<>>),
     NvsText("aa*33", TRUE, 0, [i \in 1..98 |-> IF i % 3 = 0 THEN 32 ELSE 97],
             FALSE, [i \in 1..33 |-> 170])}

\* The newValue _writeValue sees for an item of the given datatype
newValueFor(datatype, text) ==
    [nan |-> IF datatype = 66 THEN text.hexBad ELSE text.nan,
     v |-> text.v,
     bytes |-> IF datatype = 66 THEN text.hex ELSE text.bytes]

\* The items of this.pages
NvsItems ==
    {nvsPages[p].items[i] : <<p, i>> \in
        {q \in (DOMAIN nvsPages) \X (0..MAX_ENTRY_COUNT) :
            q[2] \in DOMAIN nvsPages[q[1]].items}}

NvsOpRec(kind, item, result, input) ==
    [kind |-> kind, offset |-> item.offset, datatype |-> item.datatype,
     span |-> item.span, result |-> result, input |-> input,
     wasModified |-> nvsModified, n |-> nvsOp.n + 1]

\* open(data, baseAddress, name) on one of the images
NvsInit ==
    /\ nvsData \in NvsImages
    /\ nvsModified = FALSE
    /\ nvsPages = _parse(nvsData)
    /\ nvsBefore = nvsData
    /\ nvsOp = NvsNoEdit("open")

\* _writeValue(item, newValue) on an item of this.pages
NvsWriteValue(item, text) ==
    /\ nvsOp.n < MaxNvsOps
    /\ LET r == _writeValue(nvsData, item, newValueFor(item.datatype, text))
       IN /\ nvsData' = r.d
          /\ nvsModified' = (nvsModified \/ r.modified)
          /\ nvsOp' = NvsOpRec("writeValue", item, r.result, text.name)
    /\ nvsBefore' = nvsData
    /\ UNCHANGED nvsPages
    /\ UNCHANGED nonNvsVars

\* The edit button of a listed item, one byte changed (or none) in the hex
\* editor, then Apply Changes
NvsHexApply(item, changed) ==
    /\ nvsOp.n < MaxNvsOps
    /\ item.nsIndex # 0
    /\ hexWindow(item).dataSize > 0
    /\ LET win == hexWindow(item)
           entryData == rdSeq(nvsData, win.dataOffset,
                              Min(win.dataSize, nvsData.len - win.dataOffset))
           editedData == IF changed
                         THEN [entryData EXCEPT ![1] = IF @ = 65 THEN 66 ELSE 65]
                         ELSE entryData
           r == hexApply(nvsData, item, editedData, changed)
       IN /\ nvsData' = r.d
          /\ nvsModified' = (nvsModified \/ r.modified)
          /\ nvsOp' = NvsOpRec("hexApply", item, r.result, IF changed THEN "changed" ELSE "same")
    /\ nvsBefore' = nvsData
    /\ UNCHANGED nvsPages
    /\ UNCHANGED nonNvsVars

\* The delete button of a listed item, confirmed: _deleteItemUI
NvsDeleteItemUI(item) ==
    /\ nvsOp.n < MaxNvsOps
    /\ item.nsIndex # 0
    /\ nvsData' = _deleteEntry(nvsData, item)
    /\ nvsModified' = TRUE
    /\ nvsPages' = _parse(nvsData')
    /\ nvsBefore' = nvsData
    /\ nvsOp' = NvsOpRec("delete", item, "ok", "")
    /\ UNCHANGED nonNvsVars

\* The refresh button, and closing the hex editor: this.pages = this._parse()
NvsRefresh ==
    /\ nvsOp.kind \in {"writeValue", "hexApply"}
    /\ nvsPages' = _parse(nvsData)
    /\ nvsOp' = [nvsOp EXCEPT !.kind = "refresh"]
    /\ UNCHANGED <<nvsData, nvsModified, nvsBefore>>
    /\ UNCHANGED nonNvsVars

\* The write button, enabled while modified, with onWriteFlash succeeding
NvsWriteFlash ==
    /\ nvsModified
    /\ nvsModified' = FALSE
    /\ nvsOp' = [nvsOp EXCEPT !.kind = "writeFlash"]
    /\ UNCHANGED <<nvsData, nvsPages, nvsBefore>>
    /\ UNCHANGED nonNvsVars

NvsWriteValueAny == \E item \in NvsItems, text \in NvsInputs : NvsWriteValue(item, text)
NvsHexApplyAny == \E item \in NvsItems, changed \in BOOLEAN : NvsHexApply(item, changed)
NvsDeleteItemUIAny == \E item \in NvsItems : NvsDeleteItemUI(item)

NvsNext ==
    \/ NvsWriteValueAny
    \/ NvsHexApplyAny
    \/ NvsDeleteItemUIAny
    \/ NvsRefresh
    \/ NvsWriteFlash

NvsSpecInit ==
    NvsInit /\ SlipIdle /\ SigIdle /\ UiIdle /\ FsIdle /\ FmIdle /\ ExtIdle

SpecNvs == NvsSpecInit /\ [][NvsNext]_vars

\* ---- Claims on the in-place edits ----

\* The text of NvsInputs with the given name
NvsTextNamed(name) == CHOOSE t \in NvsInputs : t.name = name

\* The offsets whose byte differs between the buffer before the last edit
\* and the buffer now
NvsChanged ==
    {o \in DOMAIN nvsData.b \cup DOMAIN nvsBefore.b : rd(nvsData, o) # rd(nvsBefore, o)}

\* bytes is the little-endian two's-complement form of v in Len(bytes)
\* bytes, for -2^15 <= v < 2^24: the low three bytes (sign-extended when
\* fewer are stored) give v modulo 2^24, every higher byte is the sign byte
LittleEndianOf(bytes, v) ==
    LET sign == IF v < 0 THEN 255 ELSE 0
        b(i) == IF i <= Len(bytes) THEN bytes[i] ELSE sign
    IN /\ b(1) + 256 * b(2) + 65536 * b(3) = (IF v < 0 THEN 16777216 + v ELSE v)
       /\ \A i \in 4..Len(bytes) : bytes[i] = sign

\* C4: a successful _writeValue on an item of a primitive type (U8..I64,
\* n value bytes) changes no byte of the buffer outside the value bytes
\* [24..24+n) and the header CRC [4..8) of the entry, leaves the value bytes
\* holding the little-endian form of the number given, and marks the editor
\* modified.
C4_PrimitiveSetFrame ==
    (nvsOp.kind = "writeValue" /\ nvsOp.result = "ok"
        /\ primitiveWidth(nvsOp.datatype) > 0) =>
    LET off == nvsOp.offset
        n == primitiveWidth(nvsOp.datatype)
    IN /\ NvsChanged \subseteq ((off + 24)..(off + 24 + n - 1)) \cup ((off + 4)..(off + 7))
       /\ LittleEndianOf(rdSeq(nvsData, off + 24, n), NvsTextNamed(nvsOp.input).v)
       /\ nvsModified

\* C4 witness (scenario S6): the U32 wifi_cnt = 5 of the first image is set
\* to 7; its value bytes go from 05 00 00 00 to 07 00 00 00 and its header
\* CRC changes.
C4_Witness ==
    /\ nvsOp.kind = "writeValue" /\ nvsOp.result = "ok" /\ nvsOp.input = "7"
    /\ nvsOp.datatype = 4 /\ nvsOp.offset = 96
    /\ rdSeq(nvsBefore, 120, 4) = <<5, 0, 0, 0>>
    /\ rdSeq(nvsData, 120, 4) = <<7, 0, 0, 0>>
    /\ rdSeq(nvsData, 100, 4) # rdSeq(nvsBefore, 100, 4)
    /\ nvsModified

\* CRC-32 (reflected polynomial 0xEDB88320, initial value 0, result
\* complemented) computed a byte at a time: the byte is folded into the low
\* eight bits, then eight shift steps follow
RefCrcShift(c0) ==
    Eager(c0, LAMBDA c :
        LET h == c.hi \div 2
            l == (c.lo \div 2) + 32768 * (c.hi % 2)
        IN IF c.lo % 2 = 1
           THEN [hi |-> Xor16(h, CRC_POLY_HI), lo |-> Xor16(l, CRC_POLY_LO)]
           ELSE [hi |-> h, lo |-> l])

RefCrcByte(crc, byte) ==
    RefCrcShift(RefCrcShift(RefCrcShift(RefCrcShift(
    RefCrcShift(RefCrcShift(RefCrcShift(RefCrcShift(
        [hi |-> crc.hi, lo |-> Xor16(crc.lo, byte)]))))))))

RECURSIVE RefCrcFrom(_, _, _)
RefCrcFrom(data, i, crc0) ==
    Eager(crc0, LAMBDA crc :
        IF i > Len(data) THEN crc
        ELSE RefCrcFrom(data, i + 1, RefCrcByte(crc, data[i])))

RefCrc(data0) ==
    Eager(data0, LAMBDA data :
        Eager(RefCrcFrom(data, 1, [hi |-> 0, lo |-> 0]), LAMBDA c :
            <<(65535 - c.lo) % 256, (65535 - c.lo) \div 256,
              (65535 - c.hi) % 256, (65535 - c.hi) \div 256>>))

\* The items a parse of the buffer as it is now returns for the entry at off
NvsReparsedAt(off) ==
    LET pages == _parse(nvsData)
    IN {pages[p].items[i] : <<p, i>> \in
           {q \in (DOMAIN pages) \X (1..MAX_ENTRY_COUNT) :
               /\ q[2] \in DOMAIN pages[q[1]].items
               /\ pages[q[1]].items[q[2]].offset = off}}

\* C5: after a successful in-place edit of an entry, by _writeValue or by
\* Apply Changes of the hex editor, the bytes [4..8) of the entry hold the
\* CRC-32 of its bytes [0..4) and [8..32), and a parse of the buffer returns
\* the entry with its header CRC reported valid.
C5_HeaderCrcAfterEdit ==
    (nvsOp.kind \in {"writeValue", "hexApply"} /\ nvsOp.result = "ok") =>
    LET off == nvsOp.offset
        reparsed == NvsReparsedAt(off)
    IN /\ rdSeq(nvsData, off + 4, 4)
            = RefCrc(rdSeq(nvsData, off, 4) \o rdSeq(nvsData, off + 8, 24))
       /\ reparsed # {}
       /\ \A item \in reparsed : item.headerCrcValid

\* C5 witness: a byte of a string payload is changed in the hex editor and
\* applied; the data CRC in the header changes, so the stored header CRC is
\* a new one, and the entry parses with a valid header CRC.
C5_Witness ==
    /\ nvsOp.kind = "hexApply" /\ nvsOp.result = "ok" /\ nvsOp.datatype = 33
    /\ rdSeq(nvsData, nvsOp.offset + 4, 4) # rdSeq(nvsBefore, nvsOp.offset + 4, 4)
    /\ \E item \in NvsReparsedAt(nvsOp.offset) : item.headerCrcValid

\* ---- Claims on the page walk, delete and the sized set ----

\* The offsets at which _parse looks for a page, and whether the page state
\* there is one of the two it does not read entries from
NvsPageOffsets(d) ==
    {k * NVS_SECTOR_SIZE : k \in {j \in 0..(d.len \div NVS_SECTOR_SIZE) :
                                     j * NVS_SECTOR_SIZE + 64 <= d.len}}

NvsBadPage(d, secOff) ==
    rdSeq(d, secOff, 4) \in {<<255, 255, 255, 255>>, <<240, 255, 255, 255>>}

\* The items of a parse result
NvsItemsOf(pages) ==
    {pages[p].items[i] : <<p, i>> \in
        {q \in (DOMAIN pages) \X (1..MAX_ENTRY_COUNT) :
            q[2] \in DOMAIN pages[q[1]].items}}

\* C8 as stated: the parse stops at the first page whose state is
\* uninitialized or corrupt, so no entry of the parse result lies on a page
\* after such a page.
C8_StopsAtFirstBadPage ==
    \A item \in NvsItemsOf(_parse(nvsData)) :
        \A secOff \in NvsPageOffsets(nvsData) :
            NvsBadPage(nvsData, secOff) => item.pageOffset < secOff

\* C8 amended: the parse walks the pages in order and skips each page whose
\* state is uninitialized or corrupt; the pages of the result are exactly
\* the other pages, in ascending order, also those after a skipped page,
\* and every entry of the result lies in the entry slots of the page it is
\* listed under.
C8_SkipsBadPages ==
    LET pages == _parse(nvsData)
    IN /\ {pages[p].offset : p \in DOMAIN pages}
            = {o \in NvsPageOffsets(nvsData) : ~NvsBadPage(nvsData, o)}
       /\ \A p, q \in DOMAIN pages : p < q => pages[p].offset < pages[q].offset
       /\ \A p \in DOMAIN pages : \A i \in DOMAIN pages[p].items :
             /\ pages[p].items[i].pageOffset = pages[p].offset
             /\ pages[p].items[i].offset >= pages[p].offset + 64
             /\ pages[p].items[i].offset < pages[p].offset + NVS_SECTOR_SIZE

\* C8 witness: the editor is opened on an image whose first page is
\* uninitialized or corrupt, and this.pages lists entries of the last page.
C8_Witness ==
    /\ nvsOp.kind = "open"
    /\ NvsBadPage(nvsData, 0)
    /\ \E p \in DOMAIN nvsPages :
          /\ nvsPages[p].offset = NvsLastPage
          /\ Len(nvsPages[p].items) >= 2

\* C9 as stated: deleting the entry of span s at slot i sets the bitmap
\* state of the slots i..i+s-1 of its page to erased (0), fills the bytes
\* of exactly those slots with 0xFF (no other byte changes but the bitmap),
\* and the parse made after the delete no longer returns the entry while it
\* returns every other entry a parse returned before, unchanged.
C9_DeleteErasesOnlyTheEntry ==
    (nvsOp.kind = "delete") =>
    LET off == nvsOp.offset
        pageOff == (off \div NVS_SECTOR_SIZE) * NVS_SECTOR_SIZE
        i == (off - pageOff - 64) \div 32
        slots == {k \in i..(i + nvsOp.span - 1) : k < MAX_ENTRY_COUNT}
        slotBytes == {o \in off..(off + nvsOp.span * 32 - 1) :
                         o < pageOff + NVS_SECTOR_SIZE}
        bitmap == rdSeq(nvsData, pageOff + 32, 32)
        before == NvsItemsOf(_parse(nvsBefore))
    IN /\ \A k \in slots : _getNVSItemState(bitmap, k) = 0
       /\ \A o \in slotBytes : rd(nvsData, o) = 255
       /\ NvsChanged \subseteq slotBytes \cup ((pageOff + 32)..(pageOff + 63))
       /\ \A item \in NvsItems : item.offset # off
       /\ \A item \in before : item.offset # off => item \in NvsItems

\* The payload a string or blob set stores for the text: the encoded text
\* and a NUL for a string, the bytes parsed from the hex text for a blob
NvsPayload(datatype, text) ==
    IF datatype = 33 THEN Append(text.bytes, 0) ELSE text.hex

\* C10 as stated: a string or blob set whose payload is longer than
\* (span-1) x 32 bytes leaves every byte of the buffer and the dirty flag
\* as they were; a payload that fits is written at the payload offset, with
\* its size at [24..26) and its CRC-32 at [28..32).
C10_SizedSet ==
    (/\ nvsOp.kind = "writeValue"
     /\ nvsOp.datatype \in {33, 66}
     /\ (nvsOp.datatype = 66 => ~NvsTextNamed(nvsOp.input).hexBad)) =>
    LET off == nvsOp.offset
        payload == NvsPayload(nvsOp.datatype, NvsTextNamed(nvsOp.input))
        size == Len(payload)
    IN IF size > (nvsOp.span - 1) * 32
       THEN nvsData = nvsBefore /\ nvsModified = nvsOp.wasModified
       ELSE /\ rdSeq(nvsData, off + 24, 2) = <<size % 256, size \div 256>>
            /\ rdSeq(nvsData, off + 28, 4) = RefCrc(payload)
            /\ \A k \in 1..size : off + 31 + k < nvsData.len
            /\ rdSeq(nvsData, off + 32, size) = payload

-----------------------------------------------------------------------------
(* Filesystem detection *)

LITTLEFS_BLOCK_SIZE_CANDIDATES == <<4096, 2048, 1024, 512>>
ESP8266_LITTLEFS_BLOCK_SIZE_CANDIDATES == <<8192, 4096>>

FilesystemType ==
    [UNKNOWN |-> "unknown", LITTLEFS |-> "littlefs", FATFS |-> "fatfs",
     SPIFFS |-> "spiffs"]

\* "littlefs", "FAT" and the bytes of 0x20140529 lowest first
FsTag == <<108, 105, 116, 116, 108, 101, 102, 115>>
FsFat == <<70, 65, 84>>
FsSpiffsMagic == <<41, 5, 20, 32>>

\* chipName?.toUpperCase().includes("ESP8266"), on the chip names of FsChips
isESP8266(chip) == chip = "ESP8266"

\* The version checks of the two detectFilesystemFromImage on the four
\* version bytes (lowest first): the two-argument one accepts every version
\* but 0 and 0xFFFFFFFF, the one-argument one wants (version >>> 16) = 2
versionNotErased(v) == v # <<0, 0, 0, 0>> /\ v # <<255, 255, 255, 255>>
versionMajorIs2(v) == v[3] + 256 * v[4] = 2
versionOk(v, majorChecked) ==
    IF majorChecked THEN versionMajorIs2(v) ELSE versionNotErased(v)

\* The LittleFS loop (majorChecked: with the version check of the
\* one-argument function): some candidate block size and block index 0 or 1 has
\* the magic at offset 8 of the block and a version the check accepts
littlefsFound(imageData, blockSizes, majorChecked) ==
    \E s \in DOMAIN blockSizes, blockIndex \in {0, 1} :
        LET superblockOffset == blockIndex * blockSizes[s]
        IN /\ superblockOffset + 20 <= imageData.len
           /\ superblockOffset + 8 + 8 <= imageData.len
           /\ rdSeq(imageData, superblockOffset + 8, 8) = FsTag
           /\ versionOk(rdSeq(imageData, superblockOffset, 4), majorChecked)

\* The FAT check: boot signature 0xAA55 and "FAT" at 54 or at 82
fatFound(imageData) ==
    /\ imageData.len >= 512
    /\ rd(imageData, 510) + 256 * rd(imageData, 511) = 43605
    /\ \/ imageData.len >= 62 /\ rdSeq(imageData, 54, 3) = FsFat
       \/ imageData.len >= 90 /\ rdSeq(imageData, 82, 3) = FsFat

\* The SPIFFS check
spiffsFound(imageData) ==
    imageData.len >= 4 /\ rdSeq(imageData, 0, 4) = FsSpiffsMagic

detectFrom(imageData, blockSizes, majorChecked) ==
    IF imageData.len < 512 THEN FilesystemType.UNKNOWN
    ELSE IF littlefsFound(imageData, blockSizes, majorChecked) THEN FilesystemType.LITTLEFS
    ELSE IF fatFound(imageData) THEN FilesystemType.FATFS
    ELSE IF spiffsFound(imageData) THEN FilesystemType.SPIFFS
    ELSE FilesystemType.UNKNOWN

\* detectFilesystemFromImage(imageData, chipName)
detectFilesystemFromImage(imageData, chip) ==
    detectFrom(imageData,
               IF isESP8266(chip) THEN ESP8266_LITTLEFS_BLOCK_SIZE_CANDIDATES
               ELSE LITTLEFS_BLOCK_SIZE_CANDIDATES,
               FALSE)

\* detectFilesystemFromImage(imageData), the one without the chip name
detectFilesystemFromImageNoChip(imageData) ==
    detectFrom(imageData, LITTLEFS_BLOCK_SIZE_CANDIDATES, TRUE)

\* espStub.readFlash(offset, readSize) on the partition: its first bytes
readFlash(partition, readSize) ==
    [len |-> Min(readSize, partition.len),
     b |-> [o \in {x \in DOMAIN partition.b : x < readSize} |-> partition.b[o]]]

FS_READ_SIZE == 8192

\* detectFilesystemType(offset, size) of the page script, on the bytes of
\* the partition; readOk: readFlash did not throw
detectFilesystemType(partition, chip, readOk) ==
    IF ~readOk THEN "spiffs"
    ELSE LET data == readFlash(partition, Min(FS_READ_SIZE, partition.len))
         IN IF data.len < 32 THEN "spiffs"
            ELSE LET fsTypeStr == detectFilesystemFromImage(data, chip)
                 IN IF fsTypeStr # "unknown" THEN fsTypeStr ELSE "spiffs"

\* ---- Images ----

FsLengths == {16, 600, 16384, 524288}
FsTagOffsets == {0, 300, 512, 2048, 4096, 8192}
FsVersions == {<<0, 0, 2, 0>>, <<1, 0, 2, 0>>, <<0, 0, 3, 0>>, <<5, 0, 1, 0>>,
               <<0, 0, 0, 0>>, <<255, 255, 255, 255>>}
\* The tag, and the tag with byte 11 of the block overwritten by 'X'
FsTags == {FsTag, [FsTag EXCEPT ![4] = 88]}
FsChips == {"", "ESP32-S3", "ESP8266"}

FsErased(len) == [len |-> len, b |-> <<>>]
withSuperblock(d, at, version, tag) == setSeq(setSeq(d, version, at), tag, at + 8)
withBootSig(d) == setSeq(d, <<85, 170>>, 510)
withFat(d, at) == setSeq(withBootSig(d), FsFat, at)
withSpiffs(d) == setSeq(d, FsSpiffsMagic, 0)

\* Scenario S5: 512 KiB, version 2.0 at [0..4), the tag at [8..16)
ImgS5 == withSuperblock(FsErased(524288), 0, <<0, 0, 2, 0>>, FsTag)

FsImages ==
    {FsErased(len) : len \in FsLengths}
    \cup {withSuperblock(FsErased(len), at, v, tag) :
             len \in FsLengths, at \in FsTagOffsets, v \in FsVersions, tag \in FsTags}
    \cup {withFat(FsErased(len), at) : len \in FsLengths, at \in {54, 82, 100}}
    \cup {withBootSig(FsErased(len)) : len \in FsLengths}
    \cup {withSpiffs(FsErased(len)) : len \in FsLengths}
    \cup {withSuperblock(withSpiffs(FsErased(len)), 4096, v, FsTag) :
             len \in FsLengths, v \in FsVersions}

FsInit ==
    /\ fsImage \in FsImages
    /\ fsChip \in FsChips
    /\ fsReadOk = TRUE
    /\ fsResult = NoCall
    /\ fsResultV1 = NoCall
    /\ fsPartResult = NoCall

FsDetectImage ==
    /\ fsResult = NoCall
    /\ fsResult' = detectFilesystemFromImage(fsImage, fsChip)
    /\ UNCHANGED <<fsImage, fsChip, fsReadOk, fsResultV1, fsPartResult>>
    /\ UNCHANGED nonFsVars

FsDetectImageNoChip ==
    /\ fsResultV1 = NoCall
    /\ fsResultV1' = detectFilesystemFromImageNoChip(fsImage)
    /\ UNCHANGED <<fsImage, fsChip, fsReadOk, fsResult, fsPartResult>>
    /\ UNCHANGED nonFsVars

FsDetectPartition(readOk) ==
    /\ fsPartResult = NoCall
    /\ fsReadOk' = readOk
    /\ fsPartResult' = detectFilesystemType(fsImage, fsChip, readOk)
    /\ UNCHANGED <<fsImage, fsChip, fsResult, fsResultV1>>
    /\ UNCHANGED nonFsVars

FsDetectPartitionAny == \E readOk \in BOOLEAN : FsDetectPartition(readOk)

FsNext ==
    \/ FsDetectImage
    \/ FsDetectImageNoChip
    \/ FsDetectPartitionAny

FsSpecInit ==
    FsInit /\ SlipIdle /\ SigIdle /\ UiIdle /\ NvsIdle /\ FmIdle /\ ExtIdle

SpecFs == FsSpecInit /\ [][FsNext]_vars

\* ---- Claims on the detection ----

\* The three probes as specified: the tag at [8..16) of block 0 or 1 for
\* some candidate block size with the major half of the version equal to 2;
\* 0xAA55 at [510..512) with "FAT" at 54 or 82; 0x20140529 at [0..4)
ProbeLittleFs(d, blockSizes) ==
    \E s \in DOMAIN blockSizes, blockIndex \in {0, 1} :
        LET at == blockIndex * blockSizes[s]
        IN /\ at + 16 <= d.len
           /\ rdSeq(d, at + 8, 8) = <<108, 105, 116, 116, 108, 101, 102, 115>>
           /\ rd(d, at + 2) = 2 /\ rd(d, at + 3) = 0

ProbeFat(d) ==
    /\ d.len >= 512
    /\ rd(d, 510) = 85 /\ rd(d, 511) = 170
    /\ \/ rdSeq(d, 54, 3) = <<70, 65, 84>>
       \/ rdSeq(d, 82, 3) = <<70, 65, 84>>

ProbeSpiffs(d) == d.len >= 4 /\ rdSeq(d, 0, 4) = <<41, 5, 20, 32>>

\* The candidate block sizes in use for the chip
FsCandidates(chip) ==
    IF chip = "ESP8266" THEN <<8192, 4096>> ELSE <<4096, 2048, 1024, 512>>

NoProbeMatches(d, chip) ==
    ~ProbeLittleFs(d, FsCandidates(chip)) /\ ~ProbeFat(d) /\ ~ProbeSpiffs(d)

\* C6 as stated: an image is classified LittleFS only if some candidate
\* block size and block index 0 or 1 has the tag 'littlefs' at [8..16) of the
\* block and a version whose major half is 2; this for both
\* detectFilesystemFromImage.
C6_LittleFsOnlyWithMajor2 ==
    /\ fsResult = "littlefs" => ProbeLittleFs(fsImage, FsCandidates(fsChip))
    /\ fsResultV1 = "littlefs" => ProbeLittleFs(fsImage, FsCandidates(""))

\* C7 as stated: for an image or partition that matches none of the three
\* probes, every detection entry point that has run reports unknown.
C7_UnknownOnNoMatch ==
    NoProbeMatches(fsImage, fsChip) =>
        /\ fsResult \in {NoCall, "unknown"}
        /\ fsPartResult \in {NoCall, "unknown"}

\* ---- Claims on the parse result ----

\* The offsets of the entries whose bitmap state is WRITTEN, on the pages
\* the parse reads
NvsWrittenSlots(d) ==
    {po[1] + 64 + po[2] * 32 : po \in
        {q \in {o \in NvsPageOffsets(d) : ~NvsBadPage(d, o)} \X (0..(MAX_ENTRY_COUNT - 1)) :
            /\ q[1] + 64 + q[2] * 32 + 32 <= d.len
            /\ (rd(d, q[1] + 32 + (q[2] \div 4)) \div (2 ^ ((q[2] % 4) * 2))) % 4 = 2}}

\* The stored header CRC of the entry at off is the CRC-32 of its bytes
\* [0..4) and [8..32)
NvsHeaderCrcMatches(d, off) ==
    rdSeq(d, off + 4, 4) = RefCrc(rdSeq(d, off, 4) \o rdSeq(d, off + 8, 24))

\* C11: a written entry whose stored header CRC differs from the CRC over
\* its bytes [0..4) and [8..32) is returned by the parser whenever it would
\* be returned with the matching CRC stored, and it is flagged: each entry
\* returned has headerCrcValid exactly when its stored CRC matches.
C11_CrcMismatchFlaggedNotDropped ==
    LET items == NvsItemsOf(_parse(nvsData))
    IN /\ \A item \in items :
             item.headerCrcValid = NvsHeaderCrcMatches(nvsData, item.offset)
       /\ \A off \in NvsWrittenSlots(nvsData) :
             ~NvsHeaderCrcMatches(nvsData, off) =>
                LET repaired == setSeq(nvsData,
                        RefCrc(rdSeq(nvsData, off, 4) \o rdSeq(nvsData, off + 8, 24)),
                        off + 4)
                IN (\E item \in NvsItemsOf(_parse(repaired)) : item.offset = off)
                      => (\E item \in items : item.offset = off /\ ~item.headerCrcValid)

\* C11 witness: the editor is opened on the image whose wifi_cnt entry
\* stores a wrong header CRC; this.pages lists wifi_cnt, flagged invalid,
\* with its value 5.
C11_Witness ==
    /\ nvsOp.kind = "open"
    /\ ~NvsHeaderCrcMatches(nvsData, 96)
    /\ \E item \in NvsItems :
          /\ item.offset = 96 /\ item.key = KeyWifiCnt
          /\ ~item.headerCrcValid
          /\ item.value = <<5, 0, 0, 0>>

\* C12 as stated: every parsed entry that is no namespace entry and whose
\* ns_index is the value of a parsed namespace entry is reported under the
\* key of that namespace entry, wherever the namespace entry lies.
C12_NamespaceResolvedAnywhere ==
    LET items == NvsItemsOf(_parse(nvsData))
    IN \A item \in items : \A ns \in items :
          (item.nsIndex # 0 /\ ns.nsIndex = 0 /\ ns.value = <<item.nsIndex>>)
             => item.namespace = ns.key


-----------------------------------------------------------------------------
(* Port ownership between the loader session and the console                *)

\* C13: at most one component performs I/O on the serial port: no command
\* of the loader or stub session (baud change, disconnect, console-mode
\* entry or exit, stub start) is issued while a console instance holds the
\* port's streams.
C13_OnePortUserAtATime ==
    \A i \in 1..Len(portIo) : ~portIo[i].console

\* C14: once a transition has made the USB port re-enumerate, no command is
\* issued on the old port handle: every command of the loader session goes
\* to a handle that was not closed by a re-enumeration.
C14_NoIoOnOldPort ==
    \A i \in 1..Len(portIo) : portIo[i].port # "dead"

\* The default triple of the transport of the port held
transportDefaults == IF transport = "webusb" THEN WebUSBDefaults ELSE DesktopDefaults

\* C15: once connected with the transport known, flash-read parameters the
\* user has not customised equal the default triple of the actual
\* transport, whichever defaults were applied when the page was loaded.
C15_DefaultsFollowTransport ==
    (espStub = "stub" /\ isConnected /\ stubPort = "live" /\ ~advCustomised)
        => advParams = transportDefaults


-----------------------------------------------------------------------------
(* Filesystem manager of the page (src/unnamed/part_004)                    *)
(* The mounted instance (a WASM or wrapper object) is held as the set of    *)
(* its entries; what mounting an image yields is an input of the open.      *)

\* An entry: the directory it is in, its name, "file" or "dir", its size
FmFile(dir, name, size) == [dir |-> dir, name |-> name, type |-> "file", size |-> size]
FmDir(name) == [dir |-> "/", name |-> name, type |-> "dir", size |-> 0]

\* Names and sizes of the files the user uploads
FmSizes == {0, 1, 100000}
FmPlaces == {<<"/", "a">>, <<"/d", "a">>}

\* What images are found to hold when they mount
FmTrees ==
    { {},
      {FmDir("d"), FmFile("/d", "a", 100000)},
      {FmFile("/", "a", 0), FmFile("/", "b", 4096), FmDir("d")} }

CeilDiv(a, b) == (a + b - 1) \div b
Max(a, b) == IF a > b THEN a ELSE b

\* currentLittleFSBlockSize || 4096
blockOrDefault(blockSize) == IF blockSize = 0 THEN 4096 ELSE blockSize

\* A footprint without the floor of one data block
footprintNoFloor(size, blockSize) ==
    LET block == blockOrDefault(blockSize)
    IN CeilDiv(size, block) * block + block

littlefsEstimateFileFootprint(size, blockSize) ==
    LET block == blockOrDefault(blockSize)
        dataBytes == Max(1, CeilDiv(size, block)) * block
        metadataBytes == block
    IN dataBytes + metadataBytes

RECURSIVE estimateEntries(_, _)
\* The loop of littlefsEstimateUsage over the entries
estimateEntries(entries, blockSize) ==
    IF entries = {} THEN 0
    ELSE LET entry == CHOOSE e \in entries : TRUE
         IN (IF entry.type = "dir"
             THEN blockOrDefault(blockSize)
             ELSE littlefsEstimateFileFootprint(entry.size, blockSize))
            + estimateEntries(entries \ {entry}, blockSize)

littlefsEstimateUsage(entries, blockSize) ==
    blockOrDefault(blockSize) * 2 + estimateEntries(entries, blockSize)

\* list(path) of the instance: LittleFS returns the direct children, FatFS
\* everything below the root, the SPIFFS wrapper every file for the root
list(files, type, path) ==
    IF type = "littlefs" \/ path # "/"
    THEN {e \in files : e.dir = path}
    ELSE files

\* usedBytes of refreshLittleFS
usedBytesOf(files, type, blockSize) ==
    littlefsEstimateUsage(list(files, type, "/"), blockSize)

\* The handler that ran, on an instance whose image was already flashed or not
FmOp(op, error) == [FmNoOp EXCEPT !.op = op, !.error = error, !.onFlashed = fmFlashed]

\* refreshLittleFS() after the instance holds files
FmRefreshed(files, op) ==
    /\ fmFiles' = files
    /\ fmUsedBytes' = usedBytesOf(files, currentFilesystemType,
                                  currentLittleFSBlockSize)
    /\ fmLast' = FmOp(op, "none")
    /\ UNCHANGED <<fmPartition, fmChip, currentLittleFS,
                   currentLittleFSPartition, currentLittleFSBlockSize,
                   currentFilesystemType, fmMountOffset, fmFlashed>>
    /\ UNCHANGED nonFmVars

\* clickLittlefsRefresh()
FmRefresh ==
    /\ currentLittleFS = "fs"
    /\ FmRefreshed(fmFiles, "refresh")
    /\ UNCHANGED currentLittleFSPath

\* navigateLittleFS(path) on a directory shown, and clickLittlefsUp()
FmNavigate(path) ==
    /\ currentLittleFS = "fs"
    /\ path # currentLittleFSPath
    /\ \/ path = "/"
       \/ path = "/d" /\ FmDir("d") \in fmFiles
    /\ currentLittleFSPath' = path
    /\ FmRefreshed(fmFiles, "navigate")

\* clickLittlefsUpload(): the file chosen goes to the directory shown; ok:
\* the instance took the file
FmUpload(name, size, ok) ==
    /\ currentLittleFS = "fs"
    /\ <<currentLittleFSPath, name>> \in FmPlaces
    /\ UNCHANGED currentLittleFSPath
    /\ IF ok
       THEN FmRefreshed({e \in fmFiles : ~(e.dir = currentLittleFSPath /\ e.name = name)}
                            \cup {FmFile(currentLittleFSPath, name, size)},
                        "upload")
       ELSE /\ fmLast' = FmOp("upload", "upload")
            /\ UNCHANGED <<fmPartition, fmChip, currentLittleFS,
                           currentLittleFSPartition, currentLittleFSBlockSize,
                           currentFilesystemType, fmFiles, fmMountOffset,
                           fmFlashed, fmUsedBytes>>
            /\ UNCHANGED nonFmVars

\* clickLittlefsMkdir() with the name "d", in the root
FmMkdir ==
    /\ currentLittleFS = "fs"
    /\ currentFilesystemType # "spiffs"
    /\ currentLittleFSPath = "/"
    /\ FmDir("d") \notin fmFiles
    /\ UNCHANGED currentLittleFSPath
    /\ FmRefreshed(fmFiles \cup {FmDir("d")}, "mkdir")

\* deleteLittleFSFile(path, type) on an entry shown, confirmed
FmDelete(entry) ==
    /\ currentLittleFS = "fs"
    /\ entry \in fmFiles
    /\ entry.dir = currentLittleFSPath
    /\ UNCHANGED currentLittleFSPath
    /\ FmRefreshed(IF entry.type = "dir"
                   THEN {e \in fmFiles : e # entry /\ e.dir # "/d"}
                   ELSE fmFiles \ {entry},
                   "delete")

\* clickLittlefsBackup(): toImage() and a download
FmBackup ==
    /\ currentLittleFS = "fs"
    /\ currentLittleFSPartition = "partition"
    /\ fmLast' = FmOp("backup", "none")
    /\ UNCHANGED <<fmPartition, fmChip, currentLittleFS, currentLittleFSPartition,
                   currentLittleFSPath, currentLittleFSBlockSize,
                   currentFilesystemType, fmFiles, fmMountOffset, fmFlashed,
                   fmUsedBytes>>
    /\ UNCHANGED nonFmVars

\* clickLittlefsWrite(), confirmed; fits: the image is not larger than the
\* partition; flashOk: espStub.flashData did not throw
FmWrite(fits, flashOk) ==
    /\ currentLittleFS = "fs"
    /\ currentLittleFSPartition = "partition"
    /\ fmFlashed' = (fmFlashed \/ (fits /\ flashOk))
    /\ fmLast' = FmOp("write", IF ~fits THEN "too-large"
                               ELSE IF ~flashOk THEN "flash" ELSE "none")
    /\ UNCHANGED <<fmPartition, fmChip, currentLittleFS, currentLittleFSPartition,
                   currentLittleFSPath, currentLittleFSBlockSize,
                   currentFilesystemType, fmFiles, fmMountOffset, fmUsedBytes>>
    /\ UNCHANGED nonFmVars

\* clickLittlefsClose()
FmClose ==
    /\ currentLittleFS = "fs"
    /\ currentLittleFS' = "null"
    /\ currentLittleFSPartition' = "null"
    /\ currentLittleFSPath' = "/"
    /\ currentFilesystemType' = "null"
    /\ fmFiles' = {}
    /\ fmMountOffset' = -1
    /\ fmFlashed' = FALSE
    /\ fmLast' = [FmNoOp EXCEPT !.op = "close"]
    /\ UNCHANGED <<fmPartition, fmChip, currentLittleFSBlockSize, fmUsedBytes>>
    /\ UNCHANGED nonFmVars

\* ---- Opening a partition ----

\* resetLittleFSState()
resetLittleFSState ==
    /\ currentLittleFS' = "null"
    /\ currentLittleFSPartition' = "null"
    /\ currentLittleFSPath' = "/"
    /\ currentLittleFSBlockSize' = 4096
    /\ fmFiles' = {}
    /\ fmMountOffset' = -1
    /\ fmFlashed' = FALSE
    /\ UNCHANGED <<currentFilesystemType, fmUsedBytes>>

\* What an open arrives at: an error, or an instance to store
FmFailed(error) ==
    [error |-> error, type |-> "null", blockSize |-> 0, files |-> {}, offset |-> -1]
FmMounted(type, blockSize, files, offset) ==
    [error |-> "none", type |-> type, blockSize |-> blockSize, files |-> files,
     offset |-> offset]

\* The instance is stored and the file list loaded
FmStore(r) ==
    /\ currentLittleFS' = "fs"
    /\ currentLittleFSPartition' = "partition"
    /\ currentLittleFSPath' = "/"
    /\ currentLittleFSBlockSize' = r.blockSize
    /\ currentFilesystemType' = r.type
    /\ fmFiles' = r.files
    /\ fmMountOffset' = r.offset
    /\ fmFlashed' = FALSE
    /\ fmUsedBytes' = usedBytesOf(r.files, r.type, r.blockSize)

\* The block sizes openLittleFS tries, in order
mountCandidates(chip) ==
    IF isESP8266(chip) THEN ESP8266_LITTLEFS_BLOCK_SIZE_CANDIDATES
    ELSE LITTLEFS_BLOCK_SIZE_CANDIDATES

\* A mount loop that gives up after the first candidate
mountLoopFirstOnly(blockSizes, mountable) ==
    IF blockSizes[1] \in mountable THEN blockSizes[1] ELSE 0

\* The mount loop of openLittleFS: the first candidate that mounts, or 0;
\* mountable are the block sizes with which the image mounts and lists
mountLoop(blockSizes, mountable) ==
    LET hits == {i \in DOMAIN blockSizes : blockSizes[i] \in mountable}
    IN IF hits = {} THEN 0
       ELSE blockSizes[CHOOSE i \in hits : \A j \in hits : i <= j]

\* openLittleFS(partition); readAll: reading the partition did not throw
openLittleFS(chip, readAll, mountable, tree) ==
    LET blockSize == mountLoop(mountCandidates(chip), mountable)
    IN IF ~readAll THEN FmFailed("read")
       ELSE IF blockSize = 0 THEN FmFailed("mount-failed")
       ELSE FmMounted("littlefs", blockSize, tree, 0)

bootSigAt(data, off) == rd(data, off + 510) + 256 * rd(data, off + 511) = 43605

\* The offset of the FAT filesystem that openFatFS mounts
fatOffsetOf(data) ==
    IF data.len >= 4096 + 512 /\ bootSigAt(data, 4096) /\ ~bootSigAt(data, 0)
    THEN 4096 ELSE 0

\* openFatFS(partition); ok: the image mounts; blank: a blank filesystem
\* could be created instead
openFatFS(partition, readAll, ok, blank, tree) ==
    IF ~readAll THEN FmFailed("read")
    ELSE IF ok THEN FmMounted("fatfs", 4096, tree, fatOffsetOf(partition))
    ELSE IF blank THEN FmMounted("fatfs", 4096, {}, -1)
    ELSE FmFailed("mount-failed")

\* openSPIFFS(partition); ok: the image parses; SPIFFS holds files only
openSPIFFS(chip, readAll, ok, tree) ==
    IF ~readAll THEN FmFailed("read")
    ELSE IF ok
    THEN FmMounted("spiffs", IF isESP8266(chip) THEN 8192 ELSE 4096,
                   {e \in tree : e.type = "file" /\ e.dir = "/"}, 0)
    ELSE FmFailed("mount-failed")

\* Partitions the user opens: LittleFS, erased, FAT at 0, FAT at 0x1000,
\* SPIFFS
FmFatAt(d, off) == setSeq(setSeq(d, <<85, 170>>, off + 510), FsFat, off + 54)
FmPartitions ==
    {<<ImgS5, "ESP32-S3">>, <<ImgS5, "ESP8266">>,
     <<FsErased(16384), "ESP32-S3">>,
     <<FmFatAt(FsErased(16384), 0), "ESP32-S3">>,
     <<FmFatAt(FsErased(16384), 4096), "ESP32-S3">>,
     <<withSpiffs(FsErased(16384)), "ESP8266">>}
\* What the two reads do: both succeed, the first fails, the second fails
FmReads == {<<TRUE, TRUE>>, <<FALSE, TRUE>>, <<TRUE, FALSE>>}
\* What the mount attempts do
FmMounts ==
    {[mountable |-> {}, ok |-> FALSE, blank |-> FALSE],
     [mountable |-> {4096}, ok |-> TRUE, blank |-> FALSE],
     [mountable |-> {512}, ok |-> FALSE, blank |-> TRUE],
     [mountable |-> {8192, 2048, 1024}, ok |-> TRUE, blank |-> TRUE]}

\* openFilesystem(partition): the button of a partition
FmOpenFilesystem(partition, chip, readOk, readAll, mountable, ok, blank, tree) ==
    \E fsType \in {detectFilesystemType(partition, chip, readOk)} :
    \E r \in {CASE fsType = "littlefs" -> openLittleFS(chip, readAll, mountable, tree)
                [] fsType = "fatfs" -> openFatFS(partition, readAll, ok, blank, tree)
                [] OTHER -> openSPIFFS(chip, readAll, ok, tree)} :
       /\ fmPartition' = partition
       /\ fmChip' = chip
       /\ IF r.error = "none" THEN FmStore(r) ELSE resetLittleFSState
       /\ fmLast' = [op |-> "open", error |-> r.error, onFlashed |-> FALSE,
                     fsType |-> fsType, readOk |-> readOk, readAll |-> readAll,
                     mountable |-> mountable, ok |-> ok]
       /\ UNCHANGED nonFmVars

FmNavigateAny == \E path \in {"/", "/d"} : FmNavigate(path)
FmUploadAny ==
    \E size \in FmSizes, ok \in BOOLEAN : FmUpload("a", size, ok)
FmDeleteAny == \E entry \in fmFiles : FmDelete(entry)
FmWriteAny == \E fits \in BOOLEAN, flashOk \in BOOLEAN : FmWrite(fits, flashOk)
FmOpenFilesystemAny ==
    \E target \in FmPartitions, read \in FmReads, m \in FmMounts,
       tree \in FmTrees :
        FmOpenFilesystem(target[1], target[2], read[1], read[2],
                         m.mountable, m.ok, m.blank, tree)

FmNext ==
    \/ FmOpenFilesystemAny
    \/ FmRefresh
    \/ FmNavigateAny
    \/ FmUploadAny
    \/ FmMkdir
    \/ FmDeleteAny
    \/ FmBackup
    \/ FmWriteAny
    \/ FmClose

FmSpecInit ==
    FmIdle /\ SlipIdle /\ SigIdle /\ UiIdle /\ NvsIdle /\ FsIdle /\ ExtIdle

SpecFm == FmSpecInit /\ [][FmNext]_vars


\* ---- Claims on the filesystem manager ----

\* C16: once the image made by an instance's toImage has been written to
\* flash, no handler performs a further operation (list, read, write,
\* remove, mkdir, toImage) on that instance.
C16_NoUseAfterFlash == ~fmLast.onFlashed

RECURSIVE fileBytes(_)
\* The bytes of all files of an instance, at any depth
fileBytes(files) ==
    IF files = {} THEN 0
    ELSE LET e == CHOOSE x \in files : TRUE
         IN e.size + fileBytes(files \ {e})

\* C17: the usage estimate shown for a mounted filesystem is never below
\* the bytes occupied by the files of the filesystem, at any directory
\* depth.
C17_EstimateBoundsUsage ==
    currentLittleFS = "fs" => fmUsedBytes >= fileBytes(fmFiles)

RECURSIVE statedBlocks(_, _)
\* Blocks counted for a list of entries as stated: per file the data blocks
\* and one more, per directory one
statedBlocks(entries, block) ==
    IF entries = {} THEN 0
    ELSE LET e == CHOOSE x \in entries : TRUE
         IN (IF e.type = "dir" THEN 1
             ELSE (e.size + block - 1) \div block + 1)
            + statedBlocks(entries \ {e}, block)

\* The entries the estimate of the instance shown is computed from
FmListed == list(fmFiles, currentFilesystemType, "/")
FmEmptyListed == {e \in FmListed : e.type = "file" /\ e.size = 0}

\* C18 as stated: the estimate equals 2 x block, plus
\* ceil(size / block) x block + block for each file, files of size 0
\* included, plus one block for each directory.
C18_EstimateAsStated ==
    currentLittleFS = "fs" =>
        fmUsedBytes = currentLittleFSBlockSize
                          * (2 + statedBlocks(FmListed, currentLittleFSBlockSize))

\* C18: the estimate equals 2 x block, plus ceil(size / block) x block +
\* block for each file of size above 0 and 2 x block for each file of
\* size 0, plus one block for each directory.
C18_EstimateWithEmptyFileFloor ==
    currentLittleFS = "fs" =>
        fmUsedBytes = currentLittleFSBlockSize
                          * (2 + statedBlocks(FmListed, currentLittleFSBlockSize)
                               + Cardinality(FmEmptyListed))

\* C18 witness: an estimate over an empty file, a file of several blocks
\* and a directory
C18_Witness ==
    /\ currentLittleFS = "fs"
    /\ FmEmptyListed # {}
    /\ \E e \in FmListed : e.type = "file" /\ e.size > 2 * currentLittleFSBlockSize
    /\ \E e \in FmListed : e.type = "dir"
    /\ fmUsedBytes > 4 * currentLittleFSBlockSize

\* C19: when opening a LittleFS partition whose data could be read,
\* a mount failure is reported exactly when mounting failed for every
\* candidate block size, and then no instance, partition or block size is
\* retained.
C19_MountFailureLeavesNothingOpen ==
    (fmLast.op = "open" /\ fmLast.fsType = "littlefs" /\ fmLast.readAll) =>
        LET cands == FsCandidates(fmChip)
            allFailed == \A i \in DOMAIN cands : cands[i] \notin fmLast.mountable
        IN /\ allFailed <=> fmLast.error = "mount-failed"
           /\ allFailed => /\ currentLittleFS = "null"
                           /\ currentLittleFSPartition = "null"
                           /\ currentLittleFSBlockSize = 4096
                           /\ fmFiles = {}

\* C19 witness: every candidate failed on a LittleFS partition and the
\* failure was reported
C19_Witness ==
    /\ fmLast.op = "open" /\ fmLast.fsType = "littlefs" /\ fmLast.readAll
    /\ fmLast.mountable = {}
    /\ fmLast.error = "mount-failed"
    /\ currentLittleFS = "null"

\* C19 witness of the other direction: the first candidates failed, a later
\* one mounted, and no failure was reported
C19_WitnessLaterCandidate ==
    /\ fmLast.op = "open" /\ fmLast.fsType = "littlefs"
    /\ fmLast.error = "none"
    /\ currentLittleFSBlockSize = 2048

\* C20: opening a partition without the boot signature at [510..512) and
\* with it at [0x1000+510..0x1000+512), when the reads succeed and the FAT
\* image mounts, ends in a FAT mount on the data past the first 0x1000
\* bytes.
C20_FatAtSectorOneMounted ==
    (/\ fmLast.op = "open" /\ fmLast.readOk /\ fmLast.readAll /\ fmLast.ok
     /\ fmPartition.len >= 4096 + 512
     /\ rd(fmPartition, 510) + 256 * rd(fmPartition, 511) # 43605
     /\ rd(fmPartition, 4096 + 510) + 256 * rd(fmPartition, 4096 + 511) = 43605)
        => /\ currentLittleFS = "fs"
           /\ currentFilesystemType = "fatfs"
           /\ fmMountOffset = 4096

-----------------------------------------------------------------------------
(* Hex editor and NVS editor: edits made while a flash write is awaited     *)
(* (src/unnamed/part_005 HexEditor, src/js/nvs-editor.js write button)      *)

nonHexVars == <<baseVars, connVars, consVars, impVars, selVars>>

\* HexEditor._setByte: store the byte and track the offset against originalData
_setByte(data, original, modified, offset, value) ==
    IF offset < 0 \/ offset >= HexLen
    THEN [data |-> data, modified |-> modified]
    ELSE IF data[offset] = value /\ offset \notin modified
    THEN [data |-> data, modified |-> modified]
    ELSE [data |-> [data EXCEPT ![offset] = value],
          modified |-> IF value # original[offset]
                       THEN modified \cup {offset}
                       ELSE modified \ {offset}]

\* Math.min(offset + 1, this.data.length - 1)
nextOffset(offset) == IF offset + 1 < HexLen - 1 THEN offset + 1 ELSE HexLen - 1

\* _handleKeyDown with an editing key (the second hex digit or a printable
\* character): _setByte at the selected offset, then select the next offset.
\* The document-level listener runs whether or not a write is awaited.
HexKeyEdit(value) ==
    /\ selectedOffset >= 0
    /\ \E r \in {_setByte(hexData, originalData, modifiedOffsets,
                          selectedOffset, value)} :
          /\ hexData' = r.data
          /\ modifiedOffsets' = r.modified
    /\ selectedOffset' = nextOffset(selectedOffset)
    /\ UNCHANGED <<originalData, hexSent, hexWrite, nvsEdData, nvsEdModified,
                   nvsEdSent, nvsEdWrite>>
    /\ UNCHANGED nonHexVars

\* _handleKeyDown with ArrowLeft / ArrowRight
HexKeyArrow(right) ==
    /\ selectedOffset >= 0
    /\ selectedOffset' = IF right THEN nextOffset(selectedOffset)
                         ELSE IF selectedOffset - 1 > 0
                              THEN selectedOffset - 1 ELSE 0
    /\ UNCHANGED <<hexData, originalData, modifiedOffsets, hexSent, hexWrite,
                   nvsEdData, nvsEdModified, nvsEdSent, nvsEdWrite>>
    /\ UNCHANGED nonHexVars

\* _handleWrite up to its await: the write button is disabled, the handler is
\* called with this.data
HexWriteBegin ==
    /\ hexWrite # "writing"
    /\ modifiedOffsets # {}
    /\ hexWrite' = "writing"
    /\ hexSent' = hexData
    /\ UNCHANGED <<hexData, originalData, modifiedOffsets, selectedOffset,
                   nvsEdData, nvsEdModified, nvsEdSent, nvsEdWrite>>
    /\ UNCHANGED nonHexVars

\* _handleWrite after its await: the snapshot is renewed and the tracking
\* cleared when the handler resolved, nothing is changed when it rejected
HexWriteEnd(ok) ==
    /\ hexWrite = "writing"
    /\ IF ok
       THEN /\ originalData' = hexData
            /\ modifiedOffsets' = {}
            /\ hexWrite' = "written"
       ELSE /\ hexWrite' = "failed"
            /\ UNCHANGED <<originalData, modifiedOffsets>>
    /\ UNCHANGED <<hexData, selectedOffset, hexSent, nvsEdData, nvsEdModified,
                   nvsEdSent, nvsEdWrite>>
    /\ UNCHANGED nonHexVars

\* An edit of the NVS editor's buffer (_writeValue, _deleteEntry or the embedded
\* hex editor's apply handler): the bytes change and modified is set
NvsEdEdit(offset, value) ==
    /\ nvsEdData[offset] # value
    /\ nvsEdData' = [nvsEdData EXCEPT ![offset] = value]
    /\ nvsEdModified' = TRUE
    /\ UNCHANGED <<hexData, originalData, modifiedOffsets, selectedOffset,
                   hexSent, hexWrite, nvsEdSent, nvsEdWrite>>
    /\ UNCHANGED nonHexVars

\* The write button's handler up to its await
NvsEdWriteBegin ==
    /\ nvsEdWrite # "writing"
    /\ nvsEdModified
    /\ nvsEdWrite' = "writing"
    /\ nvsEdSent' = nvsEdData
    /\ UNCHANGED <<hexData, originalData, modifiedOffsets, selectedOffset,
                   hexSent, hexWrite, nvsEdData, nvsEdModified>>
    /\ UNCHANGED nonHexVars

\* The write button's handler after its await
NvsEdWriteEnd(ok) ==
    /\ nvsEdWrite = "writing"
    /\ IF ok
       THEN /\ nvsEdModified' = FALSE
            /\ nvsEdWrite' = "written"
       ELSE /\ nvsEdWrite' = "failed"
            /\ UNCHANGED nvsEdModified
    /\ UNCHANGED <<hexData, originalData, modifiedOffsets, selectedOffset,
                   hexSent, hexWrite, nvsEdData, nvsEdSent>>
    /\ UNCHANGED nonHexVars

HexKeyEditAny == \E value \in HexBytes : HexKeyEdit(value)
HexKeyArrowAny == \E right \in BOOLEAN : HexKeyArrow(right)
HexWriteEndAny == \E ok \in BOOLEAN : HexWriteEnd(ok)
NvsEdEditAny ==
    \E offset \in 0..(HexLen - 1) : \E value \in HexBytes :
        NvsEdEdit(offset, value)
NvsEdWriteEndAny == \E ok \in BOOLEAN : NvsEdWriteEnd(ok)

HexNext ==
    \/ HexKeyEditAny
    \/ HexKeyArrowAny
    \/ HexWriteBegin
    \/ HexWriteEndAny
    \/ NvsEdEditAny
    \/ NvsEdWriteBegin
    \/ NvsEdWriteEndAny

HexSpecInit == BaseIdle /\ ExtIdle

SpecHex == HexSpecInit /\ [][HexNext]_vars

\* C21: a byte edit made while a flash write is in progress is not lost: once
\* the write has completed, every offset of the hex editor whose byte differs
\* from the byte given to the write is tracked in modifiedOffsets, and the NVS
\* editor's modified flag is set if its buffer differs from what was written.
C21_EditDuringWriteKept ==
    /\ hexWrite = "written"
          => \A o \in 0..(HexLen - 1) :
                hexData[o] # hexSent[o] => o \in modifiedOffsets
    /\ nvsEdWrite = "written" => (nvsEdData # nvsEdSent => nvsEdModified)

-----------------------------------------------------------------------------
(* Connect: loader initialisation and the ESP32-S2 reconnect                *)
(* (src/unnamed/part_004 clickConnect)                                      *)

nonConnVars == <<baseVars, hexVars, consVars, impVars, selVars>>

MaxConnects == 4

\* What esploader.initialize() does: it resolves, it rejects, or the loader
\* raises esp32s2-usb-reconnect and initialize() then rejects
ConnInits == {"ok", "failed", "s2"}

ConnState ==
    [flag |-> esp32s2ReconnectInProgress, modal |-> esp32s2Modal,
     stub |-> connStub, log |-> connLog]

\* clickConnect on a page with no stub. port: the port request resolved;
\* init: what initialize() does; reconnect: called by handleReconnect.
\* The listener is added only while the flag is false; when the loader raises
\* the event the listener sets the flag, drops the stub and shows the dialog.
\* A rejected initialize() returns quietly while the flag is set, and
\* otherwise disconnects the loader and rethrows.
clickConnectInit(c, port, init, reconnect) ==
    IF ~port
    THEN [c EXCEPT !.log = Append(@,
             [init |-> "none", listener |-> FALSE, raised |-> FALSE,
              swallowed |-> FALSE, disconnected |-> FALSE, thrown |-> TRUE,
              reconnect |-> reconnect])]
    ELSE LET listener == ~c.flag
             raised == init = "s2"
             fired == listener /\ raised
             flag == c.flag \/ fired
             failed == init # "ok"
         IN  [flag |-> flag,
              modal |-> c.modal \/ fired,
              stub |-> IF failed THEN FALSE ELSE TRUE,
              log |-> Append(c.log,
                  [init |-> init, listener |-> listener, raised |-> raised,
                   swallowed |-> failed /\ flag,
                   disconnected |-> failed /\ ~flag,
                   thrown |-> failed /\ ~flag,
                   reconnect |-> reconnect])]

\* clickConnect with a stub: disconnect, close the port, clear the stub
clickConnectDisconnect(c) == [c EXCEPT !.stub = FALSE]

\* handleReconnect: hide the dialog, call clickConnect, clear the flag whether
\* clickConnect returned or threw
handleReconnectS2(c, port, init) ==
    [clickConnectInit([c EXCEPT !.modal = FALSE], port, init, TRUE)
        EXCEPT !.flag = FALSE]

ConnAssign(c) ==
    /\ esp32s2ReconnectInProgress' = c.flag
    /\ esp32s2Modal' = c.modal
    /\ connStub' = c.stub
    /\ connLog' = c.log
    /\ UNCHANGED nonConnVars

\* The user clicks Connect while no dialog is shown
ConnClickConnect(port, init) ==
    /\ ~esp32s2Modal
    /\ IF connStub
       THEN ConnAssign(clickConnectDisconnect(ConnState))
       ELSE /\ Len(connLog) < MaxConnects
            /\ ConnAssign(clickConnectInit(ConnState, port, init, FALSE))

\* The user clicks the dialog's reconnect button
ConnHandleReconnect(port, init) ==
    /\ esp32s2Modal
    /\ Len(connLog) < MaxConnects
    /\ ConnAssign(handleReconnectS2(ConnState, port, init))

ConnClickConnectAny ==
    \E port \in BOOLEAN : \E init \in ConnInits : ConnClickConnect(port, init)
ConnHandleReconnectAny ==
    \E port \in BOOLEAN : \E init \in ConnInits :
        ConnHandleReconnect(port, init)

ConnNext ==
    \/ ConnClickConnectAny
    \/ ConnHandleReconnectAny

ConnSpecInit == BaseIdle /\ ExtIdle

SpecConn == ConnSpecInit /\ [][ConnNext]_vars

\* C22: a rejected initialize() is swallowed only when the reconnect event was
\* raised for that same loader; every other rejection, one during the
\* reconnect attempt included, disconnects the loader and is rethrown; and the
\* flag is false once a reconnect attempt has finished.
C22_InitFailureSwallowedOnlyForS2 ==
    /\ \A i \in 1..Len(connLog) :
          /\ connLog[i].swallowed => connLog[i].init = "s2"
          /\ connLog[i].init = "failed"
                => connLog[i].disconnected /\ connLog[i].thrown
    /\ (connLog # <<>> /\ connLog[Len(connLog)].reconnect)
          => ~esp32s2ReconnectInProgress

-----------------------------------------------------------------------------
(* Console: closeConsole and the read loop of ESP32ToolConsole              *)
(* (src/unnamed/part_004 clickConsole, initConsoleUI, closeConsole;         *)
(*  src/js/console.js _connect, disconnect)                                 *)

nonConsVars == <<baseVars, hexVars, connVars, impVars, selVars>>

MaxConsoleLines == 32
BOOTLOADER_LINES == 30

\* loaderToSave.currentBaudRate when the console is opened
ConsBauds == {115200, 921600, NotFinite}
\* enterConsoleMode resolves; it rejects; ESP32ToolConsole.init() throws
ConsEnters == {"ok", "throw", "uifail"}
\* exitConsoleMode: false; true with clickConnect resolving or rejecting; throws
ConsExits == {"ok", "manual", "manualfail", "throw"}

ConsState ==
    [instance |-> consInstance, reader |-> consReader,
     handlers |-> consHandlers, loader |-> consLoaderBefore,
     baud |-> consBaudBefore]

\* Number.isFinite(baudRateBeforeConsole)
isFiniteBaud(baud) == baud # 0 /\ baud # NotFinite

\* ESP32ToolConsole.disconnect: cancelConnection aborts the pipeline and waits
\* for _connect to end, which releases the port's reader
consoleDisconnect(c) == [c EXCEPT !.reader = FALSE]

\* closeConsole
consCloseConsole(c, exit) ==
    IF c.loader /\ isFiniteBaud(c.baud)
    THEN LET c1 == IF c.instance # "null"
                   THEN [consoleDisconnect(c) EXCEPT !.instance = "null"]
                   ELSE c
             c2 == [c1 EXCEPT !.handlers = FALSE]
         IN IF exit = "manualfail"
            THEN c2
            ELSE [c2 EXCEPT !.loader = FALSE, !.baud = 0]
    ELSE c

\* initConsoleUI: the instance is created and started, the handlers registered
initConsoleUI(c) ==
    [c EXCEPT !.instance = "open", !.reader = TRUE, !.handlers = TRUE]

\* clickConsole with the switch on, connected and without an instance
consClickConsole(c, baud, enter, exit) ==
    LET c1 == [c EXCEPT !.loader = TRUE, !.baud = baud]
    IN CASE enter = "ok" -> initConsoleUI(c1)
         [] enter = "uifail" ->
                consCloseConsole([c1 EXCEPT !.instance = "open"], exit)
         [] OTHER -> c1

ConsAssign(c) ==
    /\ consInstance' = c.instance
    /\ consReader' = c.reader
    /\ consHandlers' = c.handlers
    /\ consLoaderBefore' = c.loader
    /\ consBaudBefore' = c.baud

\* The console switch is turned on
ConsOpen(baud, enter, exit) ==
    /\ consInstance = "null"
    /\ ConsAssign(consClickConsole(ConsState, baud, enter, exit))
    /\ consReceived' = 0
    /\ lineCount' = 0
    /\ bootloaderDetected' = FALSE
    /\ consEvents' = <<>>
    /\ consResets' = 0
    /\ consMatchAfter' = FALSE
    /\ consLast' = "open"
    /\ UNCHANGED nonConsVars

\* The console switch is turned off, or the console's close button is used
ConsClose(exit) ==
    /\ consLast # "none"
    /\ ConsAssign(consCloseConsole(ConsState, exit))
    /\ consLast' = "close"
    /\ UNCHANGED <<consReceived, lineCount, bootloaderDetected, consEvents,
                   consResets, consMatchAfter>>
    /\ UNCHANGED nonConsVars

\* _connect looks at a line for bootloader patterns
checksLineLatchIgnored(detected, count) == count < BOOTLOADER_LINES

checksLine(detected, count) == ~detected /\ count < BOOTLOADER_LINES

\* The write callback of _connect for one line; match: the line matches one of
\* BOOTLOADER_PATTERNS; supported: isConsoleResetSupported().  The
\* console-bootloader handler of initConsoleUI runs when the event is raised.
ConsLine(match, supported) ==
    /\ consInstance = "open"
    /\ consReader
    /\ consReceived < MaxConsoleLines
    /\ consReceived' = consReceived + 1
    /\ IF checksLine(bootloaderDetected, lineCount)
       THEN /\ lineCount' = lineCount + 1
            /\ IF match
               THEN /\ bootloaderDetected' = TRUE
                    /\ consEvents' = Append(consEvents, consReceived + 1)
                    /\ consResets' =
                          IF consHandlers /\ consLoaderBefore /\ supported
                          THEN consResets + 1 ELSE consResets
               ELSE UNCHANGED <<bootloaderDetected, consEvents, consResets>>
            /\ UNCHANGED consMatchAfter
       ELSE /\ consMatchAfter' = (consMatchAfter \/ match)
            /\ UNCHANGED <<lineCount, bootloaderDetected, consEvents,
                           consResets>>
    /\ consLast' = "line"
    /\ UNCHANGED <<consInstance, consReader, consHandlers, consLoaderBefore,
                   consBaudBefore>>
    /\ UNCHANGED nonConsVars

ConsOpenAny ==
    \E baud \in ConsBauds : \E enter \in ConsEnters : \E exit \in ConsExits :
        ConsOpen(baud, enter, exit)
ConsCloseAny == \E exit \in ConsExits : ConsClose(exit)
ConsLineAny == \E match \in BOOLEAN : \E supported \in BOOLEAN :
    ConsLine(match, supported)

ConsNext ==
    \/ ConsOpenAny
    \/ ConsCloseAny
    \/ ConsLineAny

ConsSpecInit == BaseIdle /\ ExtIdle

SpecCons == ConsSpecInit /\ [][ConsNext]_vars

\* C23: after closeConsole has returned the console instance is disconnected
\* and cleared and the console handlers are removed, whatever was saved when
\* the console was opened and whatever exiting console mode did.
C23_CloseConsoleCleansUp ==
    consLast = "close"
        => consInstance = "null" /\ ~consReader /\ ~consHandlers

\* C26: within one console connection console-bootloader is raised at most
\* once and only for one of the first 30 lines, so the handler resets the
\* device at most once.
C26_BootloaderEventOnce ==
    /\ Len(consEvents) <= 1
    /\ \A i \in 1..Len(consEvents) : consEvents[i] \in 1..BOOTLOADER_LINES
    /\ consResets <= 1

\* C26: the event was raised, the device was reset, and a later line matched
\* a bootloader pattern again
C26_Witness ==
    /\ Len(consEvents) = 1
    /\ consResets = 1
    /\ consMatchAfter

\* C26: no line of the first 30 matched and a later line did
C26_WitnessLateMatch ==
    /\ consReceived > BOOTLOADER_LINES
    /\ consEvents = <<>>
    /\ consMatchAfter

-----------------------------------------------------------------------------
(* Improv serial client: the feedback-RPC slot                              *)
(* (src/unnamed/part_005 ImprovSerial)                                      *)

nonImpVars == <<baseVars, hexVars, connVars, consVars, selVars>>

MaxRpcs == 3

SEND_WIFI_SETTINGS == 1
REQUEST_CURRENT_STATE == 2
REQUEST_INFO == 3
REQUEST_WIFI_NETWORKS == 4
PROVISIONED == 4
READY == 2

\* The public methods that request a feedback RPC, with the timeout they pass:
\* requestCurrentState and scan pass none, requestInfo passes its argument,
\* provision is called with one
ImpCalls ==
    {[kind |-> "state", timeout |-> FALSE],
     [kind |-> "info", timeout |-> FALSE],
     [kind |-> "info", timeout |-> TRUE],
     [kind |-> "provision", timeout |-> TRUE],
     [kind |-> "scan", timeout |-> FALSE]}

commandOf(kind) ==
    CASE kind = "state" -> REQUEST_CURRENT_STATE
      [] kind = "info" -> REQUEST_INFO
      [] kind = "provision" -> SEND_WIFI_SETTINGS
      [] OTHER -> REQUEST_WIFI_NETWORKS

\* The promise of RPC id is settled: its timer is cleared by finally()
settle(rpcs, id, status) ==
    [rpcs EXCEPT ![id].status = status, ![id].timer = FALSE]

\* The slot after a refused request: requestCurrentState's catch clears it,
\* the other callers leave it alone
slotAfterRefusalKept(kind, slot) == slot

slotAfterRefusal(kind, slot) == IF kind = "state" THEN 0 ELSE slot

\* initialize(): _processInput takes the port's reader
ImpStart ==
    /\ ~impReader
    /\ impReader' = TRUE
    /\ UNCHANGED <<rpcFeedback, impRpcs, impRacing, impState, impSent, impLast>>
    /\ UNCHANGED nonImpVars

\* requestCurrentState / requestInfo / provision / scan up to their first
\* await: _sendRPCWithResponse or _sendRPCWithMultipleResponses throws while
\* the slot is taken, else it takes the slot and writes the packet
ImpRequest(call) ==
    /\ Len(impRpcs) < MaxRpcs
    /\ LET id == Len(impRpcs) + 1
       IN IF rpcFeedback # 0
          THEN /\ impRpcs' = Append(impRpcs,
                      [kind |-> call.kind, status |-> "refused",
                       timer |-> FALSE])
               /\ rpcFeedback' = slotAfterRefusal(call.kind, rpcFeedback)
               /\ impLast' = [occupied |-> TRUE, refused |-> TRUE,
                              sent |-> FALSE,
                              kept |-> rpcFeedback' = rpcFeedback]
               /\ UNCHANGED <<impRacing, impSent>>
          ELSE /\ impRpcs' = Append(impRpcs,
                      [kind |-> call.kind, status |-> "pending",
                       timer |-> call.timeout])
               /\ rpcFeedback' = id
               /\ impSent' = impSent + 1
               /\ impRacing' = IF call.kind = "state"
                               THEN impRacing \cup {id} ELSE impRacing
               /\ impLast' = [occupied |-> FALSE, refused |-> FALSE,
                              sent |-> TRUE, kept |-> TRUE]
    /\ UNCHANGED <<impReader, impState>>
    /\ UNCHANGED nonImpVars

\* _handleIncomingPacket with an RPC_RESULT for command; last: the result is
\* empty (the end of a multi-response RPC)
ImpPacketResult(command, last) ==
    /\ impReader
    /\ rpcFeedback # 0
    /\ command = commandOf(impRpcs[rpcFeedback].kind)
    /\ impRpcs[rpcFeedback].kind = "scan" => last
    /\ impRpcs' = settle(impRpcs, rpcFeedback, "resolved")
    /\ impRacing' = impRacing \ {rpcFeedback}
    /\ rpcFeedback' = 0
    /\ UNCHANGED <<impReader, impState, impSent, impLast>>
    /\ UNCHANGED nonImpVars

\* _handleIncomingPacket with a CURRENT_STATE packet: state-changed ends the
\* race of every waiting requestCurrentState, which clears the slot and
\* returns unless the state is PROVISIONED
ImpPacketState(state) ==
    /\ impReader
    /\ impState' = state
    /\ impRacing' = {}
    /\ IF impRacing # {} /\ state # PROVISIONED
       THEN /\ rpcFeedback' = 0
            /\ impRpcs' = [i \in 1..Len(impRpcs) |->
                  IF i \in impRacing /\ impRpcs[i].status = "pending"
                  THEN [impRpcs[i] EXCEPT !.status = "abandoned"]
                  ELSE impRpcs[i]]
       ELSE UNCHANGED <<rpcFeedback, impRpcs>>
    /\ UNCHANGED <<impReader, impSent, impLast>>
    /\ UNCHANGED nonImpVars

\* _setError with error > 0: the RPC holding the slot is rejected
setErrorRejects ==
    /\ IF rpcFeedback # 0
       THEN /\ impRpcs' = settle(impRpcs, rpcFeedback, "rejected")
            /\ impRacing' = impRacing \ {rpcFeedback}
            /\ rpcFeedback' = 0
       ELSE UNCHANGED <<rpcFeedback, impRpcs, impRacing>>

\* _handleIncomingPacket with an ERROR_STATE packet carrying an error
ImpPacketError ==
    /\ impReader
    /\ rpcFeedback # 0
    /\ setErrorRejects
    /\ UNCHANGED <<impReader, impState, impSent, impLast>>
    /\ UNCHANGED nonImpVars

\* The timer of _awaitRPCResultWithTimeout fires: _setError(TIMEOUT)
ImpTimeout(id) ==
    /\ id \in 1..Len(impRpcs)
    /\ impRpcs[id].timer
    /\ IF rpcFeedback # 0
       THEN /\ impRpcs' = [settle(impRpcs, rpcFeedback, "rejected")
                               EXCEPT ![id].timer = FALSE]
            /\ impRacing' = impRacing \ {rpcFeedback}
            /\ rpcFeedback' = 0
       ELSE /\ impRpcs' = [impRpcs EXCEPT ![id].timer = FALSE]
            /\ UNCHANGED <<rpcFeedback, impRacing>>
    /\ UNCHANGED <<impReader, impState, impSent, impLast>>
    /\ UNCHANGED nonImpVars

\* _processInput ends (the reader was cancelled or the port closed): the lock
\* is released, _reader is cleared, disconnect is dispatched
ImpReadLoopEnd ==
    /\ impReader
    /\ impReader' = FALSE
    /\ UNCHANGED <<rpcFeedback, impRpcs, impRacing, impState, impSent, impLast>>
    /\ UNCHANGED nonImpVars

ImpRequestAny == \E call \in ImpCalls : ImpRequest(call)
ImpPacketResultAny ==
    \E command \in SEND_WIFI_SETTINGS..REQUEST_WIFI_NETWORKS :
        \E last \in BOOLEAN : ImpPacketResult(command, last)
ImpPacketStateAny == \E state \in {READY, PROVISIONED} : ImpPacketState(state)
ImpTimeoutAny == \E id \in 1..MaxRpcs : ImpTimeout(id)

ImpNext ==
    \/ ImpStart
    \/ ImpRequestAny
    \/ ImpPacketResultAny
    \/ ImpPacketStateAny
    \/ ImpPacketError
    \/ ImpTimeoutAny
    \/ ImpReadLoopEnd

ImpSpecInit == BaseIdle /\ ExtIdle

SpecImprov == ImpSpecInit /\ [][ImpNext]_vars

\* Timers fire, and every session ends: the dialog's close() cancels the reader
FairSpecImprov ==
    /\ ImpSpecInit
    /\ [][ImpNext]_vars
    /\ WF_vars(ImpTimeoutAny)
    /\ WF_vars(ImpReadLoopEnd)

ImpPending == {i \in 1..Len(impRpcs) : impRpcs[i].status = "pending"}

\* C24: at most one feedback RPC is outstanding at any time; a feedback RPC
\* requested while another holds the slot is refused, writes no packet and
\* leaves the slot of the outstanding RPC as it was.
C24_OneFeedbackRpc ==
    /\ Cardinality(ImpPending) <= 1
    /\ impLast.occupied => impLast.refused /\ ~impLast.sent /\ impLast.kept

\* C25: every feedback RPC eventually settles and frees the slot.
C25_EveryRpcSettles ==
    \A i \in 1..MaxRpcs :
        (i \in ImpPending) ~> (i \notin ImpPending /\ rpcFeedback # i)

\* C25: once the read loop has ended no RPC holds the slot
C25_SlotFreeAfterReadLoop == ~impReader => rpcFeedback = 0

-----------------------------------------------------------------------------
(* Raw-USB adapter: the tracked DTR/RTS against the chip's lines            *)

\* C27: in the raw-USB adapter, from the end of open() onward, the tracked
\* DTR/RTS equal the levels last programmed into the USB-serial chip, so a
\* partial setSignals re-sends the unspecified line at the level it has.
C27_TrackedSignalsMatchChip ==
    (sigAdapter = "nodeUSB" /\ sigIsOpen)
        => /\ currentDTR = lineDTR
           /\ currentRTS = lineRTS
           /\ (sigLast # SigNoCall /\ sigLast.dtr = Unset)
                 => lineDTR = sigPrev.dtr
           /\ (sigLast # SigNoCall /\ sigLast.rts = Unset)
                 => lineRTS = sigPrev.rts

-----------------------------------------------------------------------------
(* NVS editor: the bytes an in-place edit may touch                         *)

\* C28: an in-place set or delete changes no byte outside the 126 entry slots
\* of the edited entry's own page (a delete also rewrites that page's state
\* bitmap), and nothing beyond the buffer, for every entry the parser returns.
C28_EditStaysInOwnPage ==
    (nvsOp.kind \in {"delete", "writeValue"}) =>
    LET pageOff == (nvsOp.offset \div NVS_SECTOR_SIZE) * NVS_SECTOR_SIZE
        slotBytes == (pageOff + 64)..(pageOff + 64 + MAX_ENTRY_COUNT * 32 - 1)
        bitmapBytes == IF nvsOp.kind = "delete"
                       THEN (pageOff + 32)..(pageOff + 63) ELSE {}
    IN /\ NvsChanged \subseteq slotBytes \cup bitmapBytes
       /\ \A o \in NvsChanged : o < nvsBefore.len
       /\ nvsData.len = nvsBefore.len

-----------------------------------------------------------------------------
(* Electron main process: the select-serial-port handler                    *)
(* (src/electron/main.cjs setupSerialPortHandlers)                          *)

nonSelVars == <<baseVars, hexVars, connVars, consVars, impVars>>

MaxSelections == 4

\* Number of ports of the event's list that pass isLikelyEspPort: none, one,
\* several
SelPortCounts == {0, 1, 2}

\* mySelectionId of an event that shows the dialog; the counter is not touched
\* by an event answered at once
nextSelectionIdEveryEvent(espPorts, id) == id + 1

nextSelectionId(espPorts, id) == IF espPorts >= 2 THEN id + 1 ELSE id

\* ses.on('select-serial-port'): with no matching port or one the callback is
\* called at once; else the dialog is opened under a new selection id
SelEvent(espPorts) ==
    /\ Len(selRequests) < MaxSelections
    /\ activeSelectionId' = nextSelectionId(espPorts, activeSelectionId)
    /\ selRequests' = Append(selRequests,
          [espPorts |-> espPorts,
           mySelectionId |-> IF espPorts >= 2 THEN activeSelectionId' ELSE 0,
           dialog |-> IF espPorts >= 2 THEN "open" ELSE "none",
           callbacks |-> IF espPorts >= 2 THEN 0 ELSE 1,
           newer |-> 0])
    /\ UNCHANGED nonSelVars

\* The dialog of request i is answered (a port button or Cancel): the callback
\* is called unless the selection id has moved on.  newer is the number of
\* events that arrived after request i and before its callback was called.
SelDialogResult(i) ==
    /\ i \in 1..Len(selRequests)
    /\ selRequests[i].dialog = "open"
    /\ selRequests' =
          IF selRequests[i].mySelectionId # activeSelectionId
          THEN [selRequests EXCEPT ![i].dialog = "ignored"]
          ELSE [selRequests EXCEPT ![i].dialog = "delivered",
                                   ![i].callbacks = @ + 1,
                                   ![i].newer = Len(selRequests) - i]
    /\ UNCHANGED activeSelectionId
    /\ UNCHANGED nonSelVars

SelEventAny == \E espPorts \in SelPortCounts : SelEvent(espPorts)
SelDialogResultAny == \E i \in 1..MaxSelections : SelDialogResult(i)

SelNext ==
    \/ SelEventAny
    \/ SelDialogResultAny

SelSpecInit == BaseIdle /\ ExtIdle

SpecSel == SelSpecInit /\ [][SelNext]_vars

\* C29: a dialog's result is delivered only if no newer select-serial-port
\* event of any kind has arrived since the dialog was opened, and the callback
\* of each request is called at most once.
C29_StaleDialogResultDropped ==
    \A i \in 1..Len(selRequests) :
        /\ selRequests[i].callbacks <= 1
        /\ selRequests[i].dialog = "delivered" => selRequests[i].newer = 0

\* C29 for newer events that open a dialog themselves
C29_DialogSupersedesDialog ==
    \A i \in 1..Len(selRequests) :
        /\ selRequests[i].callbacks <= 1
        /\ selRequests[i].dialog = "delivered"
              => \A j \in (i + 1)..(i + selRequests[i].newer) :
                    selRequests[j].espPorts < 2

=============================================================================
